---- MODULE Spec2Model ----
(***************************************************************************)
(* Model of the Stream Processor of logwrap (pkg/processor/processor.go):  *)
(* one Processor, the ProcessStreams call with its two reader goroutines,  *)
(* the shared output sink, the error collector, the WaitGroup, Stop() and  *)
(* Wait(timeout).  Every goroutine is a small program counter; a blocking  *)
(* call is an action whose guard is the condition that unblocks it.        *)
(***************************************************************************)
EXTENDS Integers, Sequences, FiniteSets, TLC

\* ------------------------------------------------------------------ bounds
\* lines the child writes, on both streams together
MaxLines == 3
\* largest FailAfter of the failing sink that is tried
MaxFailAfter == 1
\* Stop() calls made by the outside caller
MaxStops == 2
\* Wait(timeout) calls made on the Processor, one after the other
MaxWaits == 1
\* GetErrors() calls made beside a running ProcessStreams
MaxGets == 2
\* longest executable path given to executor.New, in path segments
MaxPathLen == 3
\* Start() calls made on one Executor
MaxStarts == 2
\* Wait() calls made on one Executor, one after the other
MaxExecWaits == 2
\* Stop() and Kill() calls made on one Executor, together
MaxExecStops == 2
\* signals the operating system sends to the wrapper
MaxSignals == 2
\* ProcessStreams calls made on one Processor after the first
MaxAgain == 1
\* lines on both streams together during one of these calls
MaxAgainLines == 1
\* Cleanup() calls made on one Executor
MaxCleanups == 2
\* lines the child of run writes, on both streams together
MaxRunLines == 1
\* signals the operating system sends to the wrapper during run
MaxRunSignals == 1

\* ------------------------------------------------------------- constants
StreamStdout == "stdout"
StreamStderr == "stderr"
Streams == {StreamStdout, StreamStderr}

\* ProcessStreams: const streamCount
streamCount == 2

\* The lines a child writes that fit the scanner buffer (maxScannerSize):
\* the empty line and an ordinary line.
Lines == {"", "a"}

\* How a stream ends: the child closes its end ("eof"); the read end is
\* closed under the reader ("closed", os.ErrClosed); a read fails with any
\* other error ("ioerr"); the child writes maxScannerSize bytes without a
\* newline ("toolong", bufio.ErrTooLong).
Endings == {"eof", "closed", "ioerr", "toolong"}

Other(s) == IF s = StreamStdout THEN StreamStderr ELSE StreamStdout

\* The sink never fails when failAfter = NoFail (testutils.MockWriter,
\* os.Stdout); otherwise it is testutils.FailingWriter{FailAfter: failAfter}.
NoFail == -1

NoErr == "nil"
ErrCancelled == "context cancelled"
ErrWrite == "failed to write to output"
ErrScanner == "scanner error"
ErrReadersNil == "ErrReadersNil"
ErrProcessingErrors == "ErrProcessingErrors"
ErrProcessorTimeout == "ErrProcessorTimeout"

\* Callers of Stop(): an outside caller and the timeout branch of Wait.
StopCallers == {"user", "wait"}

\* The timeouts Wait is called with (time.Duration, as it is printed).
Durations == {"30ms", "1s"}

\* ---- Executor (pkg/executor)
ErrCommandEmpty == "ErrCommandEmpty"
ErrCommandPathTraversal == "ErrCommandPathTraversal"
ErrExecutorStarted == "ErrExecutorStarted"
ErrExecutorNotStarted == "ErrExecutorNotStarted"
ErrStdoutPipe == "failed to create stdout pipe"
ErrStderrPipe == "failed to create stderr pipe"
ErrStartFailed == "failed to start command"
ErrWaitFailed == "command execution failed"
ErrSigterm == "failed to send SIGTERM"
ErrKill == "failed to kill process"

\* The segments of an executable path, as strings between separators: the
\* empty segment (a leading, doubled or trailing separator), ".", "..", a
\* plain name and a name that has two dots inside it.
Segs == {"", ".", "..", "sh", "my..tool"}

\* The segments s for which strings.Contains(s, "..") holds.
DotDotSegs == {"..", "my..tool"}

\* command[0] split at the separator: "./../sh" is <<".", "..", "sh">> and
\* "/sh" is <<"", "sh">>.
Paths == UNION {[1..n -> Segs] : n \in 1..MaxPathLen}

\* The command vectors given to New; the arguments after command[0] play
\* no part in New.
Commands == {<<>>} \cup {<<path>> : path \in Paths}

\* Which of the two pipes cannot be created, if any.
PipeFailures == {"none", StreamStdout, StreamStderr}

\* signal.Notify(e.signalChan, syscall.SIGINT, syscall.SIGTERM,
\* syscall.SIGQUIT)
RelayedSignals == {"SIGINT", "SIGTERM", "SIGQUIT"}

\* The exit codes the child ends with by itself.
ExitCodes == {0, 42}

\* ExitError.ExitCode() of a child that was ended by a signal.
KilledCode == -1

VARIABLES
    input,        \* input[s]: the lines the child has written to stream s so far
    pos,          \* pos[s]: how many of them the scanner of s has consumed
    ended,        \* ended[s]: "open" or one of Endings
    ctxDone,      \* the ctx given to ProcessStreams has been cancelled
    pc,           \* pc[s]: position of the reader goroutine of stream s
    cur,          \* cur[s]: scanner.Text() of the last successful Scan
    ret,          \* ret[s]: the error processStream returned (NoErr = nil)
    calls,        \* calls[s]: the byte strings the task of s passed to Write
    sink,         \* what the sink has accepted: records [stream, data]
    writeCount,   \* FailingWriter.writeCount
    failAfter,    \* FailingWriter.FailAfter, or NoFail
    errors,       \* Processor.errors
    wg,           \* counter of Processor.wg
    psPc,         \* the ProcessStreams caller: "idle", "waiting", "returned"
    psResult,     \* what the last ProcessStreams call returned
    onceDone,     \* Processor.stopOnce has run
    cancelCalls,  \* how many times p.cancel() has been invoked
    ownCtxDone,   \* the context created in New (its handle is discarded)
    stopPc,       \* stopPc[c]: position of caller c inside Stop()
    stopCount,    \* stopCount[c]: Stop() calls of c that have returned
    wPc,          \* the Wait caller: "idle", "select", "stopping", "returned"
    hPc,          \* the goroutine Wait starts: "none", "wgwait", "closed"
    wResult,      \* what the last Wait call returned
    waitCalls,    \* number of Wait calls made
    psArgs,       \* which readers the ProcessStreams call was given as nil
    wTimeout,     \* the timeout argument of the last Wait call
    wAfter,       \* the duration carried by the timeout error Wait returned
    got,          \* the list the last GetErrors() call returned to its caller
    gotShared,    \* that list shares its backing array with p.errors
    getCalls,     \* number of GetErrors() calls made
    gotChanged,   \* the caller has overwritten an element of its list
    command,      \* the command vector given to executor.New
    newResult,    \* what New returned: "none" before the call, "ok", or an error
    cancel,       \* the context of exec.CommandContext: "none", "live", "cancelled"
    pipes,        \* pipes[s]: stdoutPipe / stderrPipe: "none", "open", "closed"
    notified,     \* signal.Notify(signalChan, ...): "none", "notified", "stopped"
    signalChan,   \* Executor.signalChan: "none", "open", "closed"
    sigBuf,       \* the signals buffered in signalChan (capacity 1)
    relayPc,      \* the goroutine of setupSignalHandling: "none", "range", "exited"
    isStarted,    \* Executor.isStarted
    isFinished,   \* Executor.isFinished
    exitCode,     \* Executor.exitCode
    proc,         \* cmd.Process: "none", "running", "exited", "reaped"
    procCode,     \* the exit code of the child (-1: ended by a signal)
    delivered,    \* the signals sent to the child, in order: [sig, by]
    spawned,      \* number of child processes spawned
    osWaits,      \* number of e.cmd.Wait() calls begun
    cmdWaitErr,   \* what the last e.cmd.Wait() returned: "none", "nil", "exit", "oserr"
    startCalls,   \* number of Start() calls made
    startResult,  \* what the last Start() returned
    ewPc,         \* the Wait caller: "idle" or "oswait" (inside e.cmd.Wait())
    execWaitCalls,  \* number of Wait() calls made
    execWaitResult, \* what the last Wait() returned
    execStops,    \* number of Stop() and Kill() calls made
    execStopResult, \* what the last Stop() or Kill() returned
    osSignals,    \* number of signals the operating system has sent
    ctxKilled,    \* os/exec has killed the child because the context was cancelled
    cleanupCalls, \* number of Cleanup() calls made
    closeCalls,   \* closeCalls[s]: Close() calls made on the pipe of stream s
    parentIOPipes,  \* exec.Cmd still holds the two pipes to close them itself
    queried,      \* <<GetExitCode(), IsFinished()>> as last returned to a caller
    heard,        \* the signals the wrapper was sent while started, not finished
    formResult,   \* run: what formatter.New returned: "none", "ok", "err"
    runExit,      \* <<>> while the wrapper runs, then <<its exit status>>
    cfgFile,      \* LoadConfig: the settings the config file gives, <<>> = absent
    cliArgs,      \* LoadConfig: the flags on the command line, <<>> = not given
    loaded,       \* <<>>, then <<what LoadConfig returned>>
    psCalls,      \* ProcessStreams calls made after the first one returned
    levelCache,   \* DefaultFormatter.levelCache: line -> <<>> or <<level>>
    fPc,          \* fPc[s]: position of reader s inside getLogLevel
    fArg,         \* fArg[s]: the line reader s passed to FormatLine
    fOut,         \* fOut[s]: the level reader s is about to store and return
    fmtCalls,     \* number of FormatLine calls made
    seen,         \* the <<line, stream kind, level>> results returned so far
    mapFault,     \* the runtime has detected a concurrent map access
    cwPc,         \* cwPc[c]: position of concurrent Wait caller c
    notifyStops,  \* signal.Stop(e.signalChan) calls made
    chanCloses    \* close(e.signalChan) calls made

streamVars == <<input, pos, ended>>
taskVars == <<pc, cur, ret, calls>>
sinkVars == <<sink, writeCount, failAfter>>
psVars == <<psPc, psResult, psArgs>>
stopVars == <<onceDone, cancelCalls, ownCtxDone, stopPc, stopCount>>
waitVars == <<wPc, hPc, wResult, waitCalls, wTimeout, wAfter>>
getVars == <<got, gotShared, getCalls, gotChanged>>
handleVars == <<command, newResult, cancel, pipes>>
relayVars == <<notified, signalChan, sigBuf, relayPc, osSignals>>
flagVars == <<isStarted, isFinished, exitCode>>
childVars == <<proc, procCode, delivered, spawned>>
callVars == <<osWaits, cmdWaitErr, startCalls, startResult, ewPc,
              execWaitCalls, execWaitResult, execStops, execStopResult>>
lifeVars == <<ctxKilled, cleanupCalls, closeCalls, parentIOPipes, queried,
              heard>>
execVars == <<handleVars, relayVars, flagVars, childVars, callVars, lifeVars>>
runVars == <<formResult, runExit>>
confVars == <<cfgFile, cliArgs, loaded>>
\* what the actions of the Processor, the Executor and run leave alone
fmtVars == <<levelCache, fPc, fArg, fOut, fmtCalls, seen, mapFault>>
auxVars == <<confVars, psCalls, fmtVars, cwPc, notifyStops, chanCloses>>
\* what the actions of the Processor leave alone
extVars == <<getVars, execVars, runVars, auxVars>>
\* what the actions of the Executor leave alone
procVars == <<streamVars, ctxDone, taskVars, sinkVars, errors, wg, psVars,
              stopVars, waitVars, getVars, runVars, auxVars>>
vars == <<input, pos, ended, ctxDone, pc, cur, ret, calls, sink, writeCount,
          failAfter, errors, wg, psPc, psResult, onceDone,
          cancelCalls, ownCtxDone, stopPc, stopCount, wPc, hPc, wResult,
          waitCalls, psArgs, wTimeout, wAfter, got, gotShared, getCalls,
          gotChanged, command, newResult, cancel, pipes, notified,
          signalChan, sigBuf, relayPc, isStarted, isFinished, exitCode,
          proc, procCode, delivered, spawned, osWaits, cmdWaitErr,
          startCalls, startResult, ewPc, execWaitCalls, execWaitResult,
          execStops, execStopResult, osSignals, ctxKilled, cleanupCalls,
          closeCalls, parentIOPipes, queried, heard, formResult, runExit,
          cfgFile, cliArgs, loaded, psCalls, levelCache, fPc, fArg, fOut,
          fmtCalls, seen, mapFault, cwPc, notifyStops, chanCloses>>

\* ------------------------------------------------------------- Formatter
\* getLogLevel with detection disabled: the default level of the stream.
getLogLevel(line, streamType) ==
    IF streamType = StreamStdout THEN "INFO" ELSE "ERROR"

\* FormatLine: the empty line is passed through, any other line gets the
\* rendered prefix (text format, template "[{{.Level}}] ").
FormatLine(line, streamType) ==
    IF line = "" THEN line
    ELSE "[" \o getLogLevel(line, streamType) \o "] " \o line

\* The byte string processStream hands to output.Write.
Chunk(line, streamType) == FormatLine(line, streamType) \o "\n"

\* ------------------------------------------------------------ LoadConfig
\* The four settings a flag can override; every one of them may be absent.
\* The booleans are written "true" and "false".
Setting == {"template", "utc", "colors", "format"}
NoSettings == [k \in Setting |-> <<>>]

\* getDefaultConfig, as far as these settings go
getDefaultConfig ==
    [template |-> "default", utc |-> "false", colors |-> "false",
     format |-> "text"]

\* yaml.Unmarshal into the config: a key of the file replaces the value,
\* a key the file does not have leaves it.
loadConfigFile(config, file) ==
    [k \in Setting |-> IF file[k] = <<>> THEN config[k] ELSE file[k][1]]

\* parseCLIFlags: every flag is made by fs.String or fs.Bool, which return
\* a pointer to the flag's default ("" or false) that fs.Parse overwrites
\* for the flags given; no pointer is nil.
parseCLIFlags(args) ==
    [k \in Setting |->
        IF args[k] # <<>> THEN args[k]
        ELSE IF k \in {"utc", "colors"} THEN <<"false">> ELSE <<"">>]

\* applyCLIOverrides: a string flag overrides when its pointer is not nil
\* and it is not empty, a boolean flag when its pointer is not nil.
applyCLIOverrides(config, flags) ==
    [k \in Setting |->
        IF k \in {"utc", "colors"}
        THEN IF flags[k] # <<>> THEN flags[k][1] ELSE config[k]
        ELSE IF flags[k] # <<>> /\ flags[k][1] # ""
             THEN flags[k][1] ELSE config[k]]

\* Validate, as far as these settings go
validFormats == {"text", "json", "structured"}
Validate(config) ==
    IF config.template = "" THEN "template cannot be empty"
    ELSE IF config.format \notin validFormats THEN "invalid output format"
    ELSE NoErr

\* LoadConfig(configFile, args)
LoadConfigResult(file, args) ==
    LET config == applyCLIOverrides(loadConfigFile(getDefaultConfig, file),
                                    parseCLIFlags(args))
    IN  [err |-> Validate(config), config |-> config]

\* ------------------------------------------------- level detection
\* A line is the sequence of its words; the lines FormatLine is given.
DetectLines == {<<"done">>, <<"error:", "disk">>, <<"WARN", "after", "ERROR">>}

\* Detection.Keywords of the default configuration: level -> keywords.
Keywords ==
    [error |-> {"ERROR", "error:"}, warn |-> {"WARN", "warn:"},
     info |-> {"INFO", "info:"}]

\* strings.ToUpper on the words, keywords and level names in use
ToUpper(w) ==
    CASE w = "error:" -> "ERROR:"
      [] w = "warn:" -> "WARN:"
      [] w = "info:" -> "INFO:"
      [] w = "error" -> "ERROR"
      [] w = "warn" -> "WARN"
      [] w = "info" -> "INFO"
      [] w = "done" -> "DONE"
      [] w = "disk" -> "DISK"
      [] w = "after" -> "AFTER"
      [] OTHER -> w

\* The levels the keyword loop of getLogLevel can return for a line: the
\* loop ranges over the map Detection.Keywords, whose iteration order is
\* not specified, and returns at the first level with a matching keyword.
\* strings.Contains(strings.ToUpper(line), strings.ToUpper(keyword)) finds
\* the keyword as a word of the line; without a match the level is
\* LogLevel.DefaultStdout or LogLevel.DefaultStderr.
DetectLevels(line, streamType) ==
    LET matching == {level \in DOMAIN Keywords :
                        \E keyword \in Keywords[level], i \in 1..Len(line) :
                            ToUpper(line[i]) = ToUpper(keyword)}
    IN  IF matching = {}
        THEN {IF streamType = StreamStdout THEN "INFO" ELSE "ERROR"}
        ELSE {ToUpper(level) : level \in matching}

\* The callers of Wait() on one started handle.
WaitCallers == {1, 2}

\* ------------------------------------------------------------------ New
Init ==
    /\ input = [s \in Streams |-> <<>>]
    /\ pos = [s \in Streams |-> 0]
    /\ ended = [s \in Streams |-> "open"]
    /\ ctxDone = FALSE
    /\ pc = [s \in Streams |-> "idle"]
    /\ cur = [s \in Streams |-> ""]
    /\ ret = [s \in Streams |-> NoErr]
    /\ calls = [s \in Streams |-> <<>>]
    /\ sink = <<>>
    /\ writeCount = 0
    /\ failAfter \in {NoFail} \cup (0..MaxFailAfter)
    /\ errors = <<>>
    /\ wg = 0
    /\ psPc = "idle"
    /\ psResult = [err |-> NoErr, errors |-> <<>>]
    /\ onceDone = FALSE
    /\ cancelCalls = 0
    /\ ownCtxDone = FALSE
    /\ stopPc = [c \in StopCallers |-> "idle"]
    /\ stopCount = [c \in StopCallers |-> 0]
    /\ wPc = "idle"
    /\ hPc = "none"
    /\ wResult = "none"
    /\ waitCalls = 0
    /\ psArgs = [stdoutNil |-> FALSE, stderrNil |-> FALSE]
    /\ wTimeout = "none"
    /\ wAfter = "none"
    /\ got = <<>>
    /\ gotShared = FALSE
    /\ getCalls = 0
    /\ gotChanged = FALSE
    /\ command = <<>>
    /\ newResult = "none"
    /\ cancel = "none"
    /\ pipes = [s \in Streams |-> "none"]
    /\ notified = "none"
    /\ signalChan = "none"
    /\ sigBuf = <<>>
    /\ relayPc = "none"
    /\ isStarted = FALSE
    /\ isFinished = FALSE
    /\ exitCode = 0
    /\ proc = "none"
    /\ procCode = 0
    /\ delivered = <<>>
    /\ spawned = 0
    /\ osWaits = 0
    /\ cmdWaitErr = "none"
    /\ startCalls = 0
    /\ startResult = "none"
    /\ ewPc = "idle"
    /\ execWaitCalls = 0
    /\ execWaitResult = "none"
    /\ execStops = 0
    /\ execStopResult = "none"
    /\ osSignals = 0
    /\ ctxKilled = FALSE
    /\ cleanupCalls = 0
    /\ closeCalls = [s \in Streams |-> 0]
    /\ parentIOPipes = FALSE
    /\ queried = [code |-> <<>>, finished |-> <<>>]
    /\ heard = <<>>
    /\ formResult = "none"
    /\ runExit = <<>>
    /\ cfgFile = NoSettings
    /\ cliArgs = NoSettings
    /\ loaded = <<>>
    /\ psCalls = 0
    /\ levelCache = [l \in DetectLines |-> <<>>]
    /\ fPc = [s \in Streams |-> "idle"]
    /\ fArg = [s \in Streams |-> <<>>]
    /\ fOut = [s \in Streams |-> ""]
    /\ fmtCalls = 0
    /\ seen = {}
    /\ mapFault = FALSE
    /\ cwPc = [c \in WaitCallers |-> "idle"]
    /\ notifyStops = 0
    /\ chanCloses = 0

\* ---------------------------------------------------- the child's streams
\* The child writes one more line to stream s.
Produce(s, l) ==
    /\ ended[s] = "open"
    /\ Len(input[StreamStdout]) + Len(input[StreamStderr]) < MaxLines
    /\ input' = [input EXCEPT ![s] = Append(@, l)]
    /\ UNCHANGED <<pos, ended, ctxDone, taskVars, sinkVars, errors, wg,
                   psVars, stopVars, waitVars>>
    /\ UNCHANGED extVars

\* Stream s ends in one of the Endings.
EndStream(s, how) ==
    /\ ended[s] = "open"
    /\ ended' = [ended EXCEPT ![s] = how]
    /\ UNCHANGED <<input, pos, ctxDone, taskVars, sinkVars, errors, wg,
                   psVars, stopVars, waitVars>>
    /\ UNCHANGED extVars

\* The owner of the ctx given to ProcessStreams cancels it.
CancelCtx ==
    /\ ~ctxDone
    /\ ctxDone' = TRUE
    /\ UNCHANGED <<streamVars, taskVars, sinkVars, errors, wg, psVars,
                   stopVars, waitVars>>
    /\ UNCHANGED extVars

\* ------------------------------------------------------- processStream
\* processStream returns err to the goroutine that called it.
Return(s, err) ==
    /\ ret' = [ret EXCEPT ![s] = err]
    /\ pc' = [pc EXCEPT ![s] = "exit"]

\* ScanResult without the filter for a closed handle.
ScanResultNoFilter(how) ==
    IF how = "eof" THEN NoErr ELSE ErrScanner

\* What processStream returns when Scan returns false on an ended stream:
\* scanner.Err() is nil at end-of-stream, a closed handle is filtered to
\* nil, every other error becomes "scanner error for <stream>".
ScanResult(how) ==
    IF how \in {"eof", "closed"} THEN NoErr ELSE ErrScanner

\* scanner.Scan() and, when it returns false, scanner.Err().  A complete
\* line in the pipe is returned.  Scan returns false when the stream has
\* ended and its lines are used up; a closed handle or a failed read can
\* also end it before the lines still in the pipe were read.
TaskScan(s) ==
    /\ pc[s] = "scan"
    /\ \/ /\ pos[s] < Len(input[s])
          /\ pos' = [pos EXCEPT ![s] = @ + 1]
          /\ cur' = [cur EXCEPT ![s] = input[s][pos[s] + 1]]
          /\ pc' = [pc EXCEPT ![s] = "check"]
          /\ UNCHANGED ret
       \/ /\ ended[s] # "open"
          /\ pos[s] = Len(input[s]) \/ ended[s] \in {"closed", "ioerr"}
          /\ Return(s, ScanResult(ended[s]))
          /\ UNCHANGED <<pos, cur>>
    /\ UNCHANGED <<input, ended, ctxDone, calls, sinkVars, errors, wg,
                   psVars, stopVars, waitVars>>
    /\ UNCHANGED extVars

\* TaskCheck with a reader that drops empty lines instead of writing them.
TaskCheckSkipEmpty(s) ==
    /\ pc[s] = "check"
    /\ IF ctxDone
       THEN /\ Return(s, ErrCancelled)
            /\ UNCHANGED calls
       ELSE IF cur[s] = ""
       THEN /\ pc' = [pc EXCEPT ![s] = "scan"]
            /\ UNCHANGED <<ret, calls>>
       ELSE /\ calls' = [calls EXCEPT ![s] = Append(@, Chunk(cur[s], s))]
            /\ pc' = [pc EXCEPT ![s] = "inwrite"]
            /\ UNCHANGED ret
    /\ UNCHANGED <<streamVars, ctxDone, cur, sinkVars, errors, wg,
                   psVars, stopVars, waitVars>>
    /\ UNCHANGED extVars

\* TaskCheck with a reader that treats a fired ctx as a clean exit.
TaskCheckCleanCancel(s) ==
    /\ pc[s] = "check"
    /\ IF ctxDone
       THEN /\ Return(s, NoErr)
            /\ UNCHANGED calls
       ELSE /\ calls' = [calls EXCEPT ![s] = Append(@, Chunk(cur[s], s))]
            /\ pc' = [pc EXCEPT ![s] = "inwrite"]
            /\ UNCHANGED ret
    /\ UNCHANGED <<streamVars, ctxDone, cur, sinkVars, errors, wg,
                   psVars, stopVars, waitVars>>
    /\ UNCHANGED extVars

\* TaskCheck with the check of ctx made after FormatLine and the call of
\* Write instead of before them.
TaskCheckLateCancel(s) ==
    /\ pc[s] = "check"
    /\ calls' = [calls EXCEPT ![s] = Append(@, Chunk(cur[s], s))]
    /\ IF ctxDone
       THEN Return(s, ErrCancelled)
       ELSE /\ pc' = [pc EXCEPT ![s] = "inwrite"]
            /\ UNCHANGED ret
    /\ UNCHANGED <<streamVars, ctxDone, cur, sinkVars, errors, wg,
                   psVars, stopVars, waitVars>>
    /\ UNCHANGED extVars

\* select { case <-ctx.Done(): return ...; default: }, then FormatLine,
\* and the task enters p.output.Write(formattedLine + "\n").
TaskCheck(s) ==
    /\ pc[s] = "check"
    /\ IF ctxDone
       THEN /\ Return(s, ErrCancelled)
            /\ UNCHANGED calls
       ELSE /\ calls' = [calls EXCEPT ![s] = Append(@, Chunk(cur[s], s))]
            /\ pc' = [pc EXCEPT ![s] = "inwrite"]
            /\ UNCHANGED ret
    /\ UNCHANGED <<streamVars, ctxDone, cur, sinkVars, errors, wg,
                   psVars, stopVars, waitVars>>
    /\ UNCHANGED extVars

\* TaskWriteEnd with a sink that has no lock of its own: a write that
\* overlaps the other task's write is lost.
TaskWriteEndLost(s) ==
    /\ pc[s] = "inwrite"
    /\ sink' = IF pc[Other(s)] = "inwrite"
               THEN sink
               ELSE Append(sink, [stream |-> s, data |-> Chunk(cur[s], s)])
    /\ pc' = [pc EXCEPT ![s] = "scan"]
    /\ UNCHANGED <<streamVars, ctxDone, cur, ret, calls, writeCount,
                   failAfter, errors, wg, psVars, stopVars, waitVars>>
    /\ UNCHANGED extVars

\* The sink's Write takes its own lock, counts the write and fails or
\* accepts the data (MockWriter.Write, FailingWriter.Write); Write returns.
TaskWriteEnd(s) ==
    /\ pc[s] = "inwrite"
    /\ IF failAfter = NoFail
       THEN /\ sink' = Append(sink, [stream |-> s, data |-> Chunk(cur[s], s)])
            /\ pc' = [pc EXCEPT ![s] = "scan"]
            /\ UNCHANGED <<writeCount, ret>>
       ELSE /\ writeCount' = writeCount + 1
            /\ IF writeCount' > failAfter
               THEN /\ Return(s, ErrWrite)
                    /\ UNCHANGED sink
               ELSE /\ sink' = Append(sink,
                                  [stream |-> s, data |-> Chunk(cur[s], s)])
                    /\ pc' = [pc EXCEPT ![s] = "scan"]
                    /\ UNCHANGED ret
    /\ UNCHANGED <<streamVars, ctxDone, cur, calls, failAfter, errors, wg,
                   psVars, stopVars, waitVars>>
    /\ UNCHANGED extVars

\* addError: under p.mutex, p.errors = append(p.errors, err)
addError(err) == errors' = Append(errors, err)

\* TaskExit with both goroutines tagging their error as the stdout one.
TaskExitMistag(s) ==
    /\ pc[s] = "exit"
    /\ IF ret[s] # NoErr
       THEN addError([stream |-> StreamStdout, cause |-> ret[s]])
       ELSE UNCHANGED errors
    /\ wg' = wg - 1
    /\ pc' = [pc EXCEPT ![s] = "done"]
    /\ UNCHANGED <<streamVars, ctxDone, cur, ret, calls, sinkVars,
                   psVars, stopVars, waitVars>>
    /\ UNCHANGED extVars

\* The rest of the goroutine: if err != nil, p.addError(fmt.Errorf(
\* "<stream> processing error: %w", err)); then the deferred p.wg.Done().
TaskExit(s) ==
    /\ pc[s] = "exit"
    /\ IF ret[s] # NoErr
       THEN addError([stream |-> s, cause |-> ret[s]])
       ELSE UNCHANGED errors
    /\ wg' = wg - 1
    /\ pc' = [pc EXCEPT ![s] = "done"]
    /\ UNCHANGED <<streamVars, ctxDone, cur, ret, calls, sinkVars,
                   psVars, stopVars, waitVars>>
    /\ UNCHANGED extVars

\* ------------------------------------------------------ ProcessStreams
\* ProcessStreamsCall with a nil check that looks at stdout only.
ProcessStreamsCallStdoutOnly(stdoutNil, stderrNil) ==
    /\ psPc = "idle"
    /\ psArgs' = [stdoutNil |-> stdoutNil, stderrNil |-> stderrNil]
    /\ IF stdoutNil
       THEN /\ psPc' = "returned"
            /\ psResult' = [err |-> ErrReadersNil, errors |-> <<>>]
            /\ UNCHANGED <<pc, wg>>
       ELSE /\ psPc' = "waiting"
            /\ wg' = wg + streamCount
            /\ pc' = [s \in Streams |-> "scan"]
            /\ UNCHANGED psResult
    /\ UNCHANGED <<streamVars, ctxDone, cur, ret, calls, sinkVars, errors,
                   stopVars, waitVars>>
    /\ UNCHANGED extVars

\* The call up to p.wg.Wait(): the nil check, wg.Add(streamCount) and the
\* two go statements.
ProcessStreamsCall(stdoutNil, stderrNil) ==
    /\ psPc = "idle"
    /\ psArgs' = [stdoutNil |-> stdoutNil, stderrNil |-> stderrNil]
    /\ IF stdoutNil \/ stderrNil
       THEN /\ psPc' = "returned"
            /\ psResult' = [err |-> ErrReadersNil, errors |-> <<>>]
            /\ UNCHANGED <<pc, wg>>
       ELSE /\ psPc' = "waiting"
            /\ wg' = wg + streamCount
            /\ pc' = [s \in Streams |-> "scan"]
            /\ UNCHANGED psResult
    /\ UNCHANGED <<streamVars, ctxDone, cur, ret, calls, sinkVars, errors,
                   stopVars, waitVars>>
    /\ UNCHANGED extVars

\* ProcessStreamsReturn without p.wg.Wait().
ProcessStreamsReturnNoWait ==
    /\ psPc = "waiting"
    /\ psPc' = "returned"
    /\ psResult' = IF Len(errors) > 0
                   THEN [err |-> ErrProcessingErrors, errors |-> errors]
                   ELSE [err |-> NoErr, errors |-> <<>>]
    /\ UNCHANGED <<streamVars, ctxDone, taskVars, sinkVars, errors, wg,
                   psArgs, stopVars, waitVars>>
    /\ UNCHANGED extVars

\* p.wg.Wait() returns; the result is built from p.errors.
ProcessStreamsReturn ==
    /\ psPc = "waiting"
    /\ wg = 0
    /\ psPc' = "returned"
    /\ psResult' = IF Len(errors) > 0
                   THEN [err |-> ErrProcessingErrors, errors |-> errors]
                   ELSE [err |-> NoErr, errors |-> <<>>]
    /\ UNCHANGED <<streamVars, ctxDone, taskVars, sinkVars, errors, wg,
                   psArgs, stopVars, waitVars>>
    /\ UNCHANGED extVars

\* ---------------------------------------------------------------- Stop
\* Caller c may enter Stop(): the outside caller a bounded number of
\* times, Wait when its timer has fired.
CanStop(c) ==
    IF c = "wait" THEN wPc = "stopping" ELSE stopCount[c] < MaxStops

\* Stop() returns for caller c; in Wait the timeout error follows.
StopReturns(c) ==
    /\ stopCount' = [stopCount EXCEPT ![c] = @ + 1]
    /\ stopPc' = [stopPc EXCEPT ![c] = "idle"]
    /\ IF c = "wait"
       THEN /\ wPc' = "returned"
            /\ wResult' = ErrProcessorTimeout
            /\ wAfter' = wTimeout
            /\ UNCHANGED <<hPc, waitCalls, wTimeout>>
       ELSE UNCHANGED waitVars

\* stopOnce.Do, fast path: the done flag is read without the lock.
StopBegin(c) ==
    /\ stopPc[c] = "idle"
    /\ CanStop(c)
    /\ IF onceDone
       THEN StopReturns(c)
       ELSE /\ stopPc' = [stopPc EXCEPT ![c] = "slow"]
            /\ UNCHANGED <<stopCount, waitVars>>
    /\ UNCHANGED <<streamVars, ctxDone, taskVars, sinkVars, errors, wg,
                   psVars, onceDone, cancelCalls, ownCtxDone>>
    /\ UNCHANGED extVars

\* StopSlow as a plain "if p.cancel != nil { p.cancel() }": no second look
\* at the flag.
StopSlowNoRecheck(c) ==
    /\ stopPc[c] = "slow"
    /\ onceDone' = TRUE
    /\ cancelCalls' = cancelCalls + 1
    /\ ownCtxDone' = TRUE
    /\ StopReturns(c)
    /\ UNCHANGED <<streamVars, ctxDone, taskVars, sinkVars, errors, wg,
                   psVars>>
    /\ UNCHANGED extVars

\* stopOnce.Do, slow path, under the lock of the Once: the flag is read
\* again and the function runs only if it is still unset: p.cancel(), which
\* cancels the context New created.
StopSlow(c) ==
    /\ stopPc[c] = "slow"
    /\ IF onceDone
       THEN UNCHANGED <<onceDone, cancelCalls, ownCtxDone>>
       ELSE /\ onceDone' = TRUE
            /\ cancelCalls' = cancelCalls + 1
            /\ ownCtxDone' = TRUE
    /\ StopReturns(c)
    /\ UNCHANGED <<streamVars, ctxDone, taskVars, sinkVars, errors, wg,
                   psVars>>
    /\ UNCHANGED extVars

\* ---------------------------------------------------------------- Wait
\* Wait(timeout) up to its select: a fresh done channel and the goroutine
\* that will close it.
WaitCall(timeout) ==
    /\ wPc \in {"idle", "returned"}
    /\ waitCalls < MaxWaits
    /\ waitCalls' = waitCalls + 1
    /\ wTimeout' = timeout
    /\ wPc' = "select"
    /\ hPc' = "wgwait"
    /\ wResult' = "none"
    /\ wAfter' = "none"
    /\ UNCHANGED <<streamVars, ctxDone, taskVars, sinkVars, errors, wg,
                   psVars, stopVars>>
    /\ UNCHANGED extVars

\* go func() { p.wg.Wait(); close(done) }()
WaitHelper ==
    /\ hPc = "wgwait"
    /\ wg = 0
    /\ hPc' = "closed"
    /\ UNCHANGED <<streamVars, ctxDone, taskVars, sinkVars, errors, wg,
                   psVars, stopVars, wPc, wResult, waitCalls, wTimeout,
                   wAfter>>
    /\ UNCHANGED extVars

\* case <-done: return nil
WaitDone ==
    /\ wPc = "select"
    /\ hPc = "closed"
    /\ wPc' = "returned"
    /\ wResult' = NoErr
    /\ UNCHANGED <<streamVars, ctxDone, taskVars, sinkVars, errors, wg,
                   psVars, stopVars, hPc, waitCalls, wTimeout, wAfter>>
    /\ UNCHANGED extVars

\* WaitTimeout with the timeout branch returning its error at once,
\* without p.Stop().
WaitTimeoutNoStop ==
    /\ wPc = "select"
    /\ wPc' = "returned"
    /\ wResult' = ErrProcessorTimeout
    /\ wAfter' = wTimeout
    /\ UNCHANGED <<streamVars, ctxDone, taskVars, sinkVars, errors, wg,
                   psVars, stopVars, hPc, waitCalls, wTimeout>>
    /\ UNCHANGED extVars

\* case <-time.After(timeout): the timer fires; p.Stop() is next.
WaitTimeout ==
    /\ wPc = "select"
    /\ wPc' = "stopping"
    /\ UNCHANGED <<streamVars, ctxDone, taskVars, sinkVars, errors, wg,
                   psVars, stopVars, hPc, wResult, waitCalls, wTimeout,
                   wAfter>>
    /\ UNCHANGED extVars

\* ----------------------------------------------------------- GetErrors
\* GetErrors returning p.errors itself instead of a copy of it.
GetErrorsNoCopy ==
    /\ getCalls < MaxGets
    /\ getCalls' = getCalls + 1
    /\ got' = errors
    /\ gotShared' = TRUE
    /\ gotChanged' = FALSE
    /\ UNCHANGED <<streamVars, ctxDone, taskVars, sinkVars, errors, wg,
                   psVars, stopVars, waitVars, execVars, runVars, auxVars>>

\* Under p.mutex: errors := make([]error, len(p.errors)); copy(errors,
\* p.errors); return errors.  The list returned has an array of its own.
GetErrors ==
    /\ getCalls < MaxGets
    /\ getCalls' = getCalls + 1
    /\ got' = errors
    /\ gotShared' = FALSE
    /\ gotChanged' = FALSE
    /\ UNCHANGED <<streamVars, ctxDone, taskVars, sinkVars, errors, wg,
                   psVars, stopVars, waitVars, execVars, runVars, auxVars>>

\* What the caller of GetErrors puts into the list it was given.
Overwritten == [stream |-> "caller", cause |-> NoErr]

\* The caller of GetErrors overwrites the first element of the list it was
\* given; a write to a slice is a write to its backing array, so it shows
\* in every slice that shares the array.
CallerOverwrites ==
    /\ Len(got) > 0
    /\ ~gotChanged
    /\ gotChanged' = TRUE
    /\ got' = [got EXCEPT ![1] = Overwritten]
    /\ errors' = IF gotShared
                 THEN [errors EXCEPT ![1] = Overwritten]
                 ELSE errors
    /\ UNCHANGED <<streamVars, ctxDone, taskVars, sinkVars, wg, psVars,
                   stopVars, waitVars, gotShared, getCalls, execVars,
                   runVars, auxVars>>

\* ------------------------------------------------------------ Executor
IsRooted(path) == Len(path) >= 2 /\ path[1] = ""

\* filepath.Clean, segment by segment: empty segments and "." are dropped,
\* ".." removes the name before it, is dropped at the root and is kept at
\* the front of a relative path.
RECURSIVE CleanSegs(_, _, _)
CleanSegs(path, i, out) ==
    IF i > Len(path) THEN out
    ELSE IF path[i] \in {"", "."} THEN CleanSegs(path, i + 1, out)
    ELSE IF path[i] = ".."
    THEN IF Len(out) > 0 /\ out[Len(out)] # ".."
         THEN CleanSegs(path, i + 1, SubSeq(out, 1, Len(out) - 1))
         ELSE IF IsRooted(path)
         THEN CleanSegs(path, i + 1, out)
         ELSE CleanSegs(path, i + 1, Append(out, ".."))
    ELSE CleanSegs(path, i + 1, Append(out, path[i]))

\* filepath.Clean(command): "." for an empty relative result, the root for
\* an empty rooted one.
CleanPath(path) ==
    LET out == CleanSegs(path, 1, <<>>)
    IN  IF IsRooted(path) THEN <<"">> \o (IF out = <<>> THEN <<"">> ELSE out)
        ELSE IF out = <<>> THEN <<".">>
        ELSE out

\* validateCommand with the check made on the first segment of the path as
\* it was given, not on the cleaned path.
validateCommandUncleaned(path) ==
    IF path[1] \in DotDotSegs
    THEN ErrCommandPathTraversal
    ELSE NoErr

\* cleaned := filepath.Clean(command); strings.Contains(cleaned, "..")
validateCommand(path) ==
    IF \E i \in 1..Len(CleanPath(path)) : CleanPath(path)[i] \in DotDotSegs
    THEN ErrCommandPathTraversal
    ELSE NoErr

\* ExecutorNew with the context created before the command is looked at.
ExecutorNewLateCheck(cmd, pipeFail) ==
    /\ newResult = "none"
    /\ command' = cmd
    /\ IF Len(cmd) = 0
       THEN /\ newResult' = ErrCommandEmpty
            /\ cancel' = "live"
            /\ UNCHANGED <<pipes, notified, signalChan, relayPc, closeCalls,
                           parentIOPipes>>
       ELSE IF validateCommand(cmd[1]) # NoErr
       THEN /\ newResult' = validateCommand(cmd[1])
            /\ cancel' = "live"
            /\ UNCHANGED <<pipes, notified, signalChan, relayPc, closeCalls,
                           parentIOPipes>>
       ELSE IF pipeFail = StreamStdout
       THEN /\ newResult' = ErrStdoutPipe
            /\ cancel' = "cancelled"
            /\ UNCHANGED <<pipes, notified, signalChan, relayPc, closeCalls,
                           parentIOPipes>>
       ELSE IF pipeFail = StreamStderr
       THEN /\ newResult' = ErrStderrPipe
            /\ cancel' = "cancelled"
            /\ pipes' = [pipes EXCEPT ![StreamStdout] = "closed"]
            /\ closeCalls' = [closeCalls EXCEPT ![StreamStdout] = @ + 1]
            /\ UNCHANGED <<notified, signalChan, relayPc, parentIOPipes>>
       ELSE /\ newResult' = "ok"
            /\ cancel' = "live"
            /\ pipes' = [s \in Streams |-> "open"]
            /\ signalChan' = "open"
            /\ notified' = "notified"
            /\ relayPc' = "range"
            /\ parentIOPipes' = TRUE
            /\ UNCHANGED closeCalls
    /\ UNCHANGED <<sigBuf, osSignals, flagVars, childVars, callVars, procVars,
                   ctxKilled, cleanupCalls, queried, heard>>

\* executor.New(command): the empty-command check, validateCommand, the
\* context, the two pipes (each of which may fail), the Executor value and
\* setupSignalHandling: signal.Notify and the relay goroutine.
ExecutorNew(cmd, pipeFail) ==
    /\ newResult = "none"
    /\ command' = cmd
    /\ IF Len(cmd) = 0
       THEN /\ newResult' = ErrCommandEmpty
            /\ UNCHANGED <<cancel, pipes, notified, signalChan, relayPc,
                           closeCalls, parentIOPipes>>
       ELSE IF validateCommand(cmd[1]) # NoErr
       THEN /\ newResult' = validateCommand(cmd[1])
            /\ UNCHANGED <<cancel, pipes, notified, signalChan, relayPc,
                           closeCalls, parentIOPipes>>
       ELSE IF pipeFail = StreamStdout
       THEN /\ newResult' = ErrStdoutPipe
            /\ cancel' = "cancelled"
            /\ UNCHANGED <<pipes, notified, signalChan, relayPc, closeCalls,
                           parentIOPipes>>
       ELSE IF pipeFail = StreamStderr
       THEN /\ newResult' = ErrStderrPipe
            /\ cancel' = "cancelled"
            /\ pipes' = [pipes EXCEPT ![StreamStdout] = "closed"]
            /\ closeCalls' = [closeCalls EXCEPT ![StreamStdout] = @ + 1]
            /\ UNCHANGED <<notified, signalChan, relayPc, parentIOPipes>>
       ELSE /\ newResult' = "ok"
            /\ cancel' = "live"
            /\ pipes' = [s \in Streams |-> "open"]
            /\ signalChan' = "open"
            /\ notified' = "notified"
            /\ relayPc' = "range"
            /\ parentIOPipes' = TRUE
            /\ UNCHANGED closeCalls
    /\ UNCHANGED <<sigBuf, osSignals, flagVars, childVars, callVars, procVars,
                   ctxKilled, cleanupCalls, queried, heard>>

\* exec.Cmd closes the pipes it still holds (closeDescriptors of its
\* parentIOPipes), after a failed Start and in Wait.
CmdClosesPipes ==
    /\ parentIOPipes' = FALSE
    /\ IF parentIOPipes
       THEN /\ pipes' = [s \in Streams |-> "closed"]
            /\ closeCalls' = [s \in Streams |-> closeCalls[s] + 1]
       ELSE UNCHANGED <<pipes, closeCalls>>

\* Start(): ErrExecutorStarted when isStarted is set; otherwise e.cmd.Start(),
\* which spawns the child (ok) or fails and then closes the pipes it had
\* made; it fails when the context is cancelled already.  isStarted is set
\* only when it succeeded.
ExecutorStart(ok) ==
    /\ newResult = "ok"
    /\ startCalls < MaxStarts
    /\ startCalls' = startCalls + 1
    /\ IF isStarted
       THEN /\ startResult' = ErrExecutorStarted
            /\ UNCHANGED <<isStarted, proc, spawned, pipes, closeCalls,
                           parentIOPipes>>
       ELSE IF ok /\ cancel = "live"
       THEN /\ startResult' = NoErr
            /\ isStarted' = TRUE
            /\ proc' = "running"
            /\ spawned' = spawned + 1
            /\ UNCHANGED <<pipes, closeCalls, parentIOPipes>>
       ELSE /\ startResult' = ErrStartFailed
            /\ CmdClosesPipes
            /\ UNCHANGED <<isStarted, proc, spawned>>
    /\ UNCHANGED <<ctxKilled, cleanupCalls, queried, heard>>
    /\ UNCHANGED <<command, newResult, cancel, relayVars, isFinished,
                   exitCode, procCode, delivered, osWaits, cmdWaitErr, ewPc,
                   execWaitCalls, execWaitResult, execStops, execStopResult,
                   procVars>>

\* The child ends: by itself with one of the ExitCodes, or by a signal it
\* was sent.
ChildExit(code) ==
    /\ proc = "running"
    /\ code = KilledCode => delivered # <<>>
    /\ proc' = "exited"
    /\ procCode' = code
    /\ UNCHANGED <<handleVars, relayVars, flagVars, delivered, spawned,
                   callVars, procVars>>
    /\ UNCHANGED lifeVars

\* ExecutorWaitCall without the isStarted check.
ExecutorWaitCallNoStartCheck ==
    /\ newResult = "ok"
    /\ ewPc = "idle"
    /\ execWaitCalls < MaxExecWaits
    /\ execWaitCalls' = execWaitCalls + 1
    /\ IF isFinished
       THEN /\ execWaitResult' = NoErr
            /\ UNCHANGED <<ewPc, osWaits>>
       ELSE /\ ewPc' = "oswait"
            /\ osWaits' = osWaits + 1
            /\ UNCHANGED execWaitResult
    /\ UNCHANGED <<handleVars, relayVars, flagVars, childVars, cmdWaitErr,
                   startCalls, startResult, execStops, execStopResult,
                   procVars>>
    /\ UNCHANGED lifeVars

\* ExecutorWaitCall without the isFinished check.
ExecutorWaitCallNoFinishedCheck ==
    /\ newResult = "ok"
    /\ ewPc = "idle"
    /\ execWaitCalls < MaxExecWaits
    /\ execWaitCalls' = execWaitCalls + 1
    /\ IF ~isStarted
       THEN /\ execWaitResult' = ErrExecutorNotStarted
            /\ UNCHANGED <<ewPc, osWaits>>
       ELSE /\ ewPc' = "oswait"
            /\ osWaits' = osWaits + 1
            /\ UNCHANGED execWaitResult
    /\ UNCHANGED <<handleVars, relayVars, flagVars, childVars, cmdWaitErr,
                   startCalls, startResult, execStops, execStopResult,
                   procVars>>
    /\ UNCHANGED lifeVars

\* Wait() up to e.cmd.Wait(): ErrExecutorNotStarted when isStarted is not
\* set, nil when isFinished is set, otherwise the caller enters
\* e.cmd.Wait().
ExecutorWaitCall ==
    /\ newResult = "ok"
    /\ ewPc = "idle"
    /\ execWaitCalls < MaxExecWaits
    /\ execWaitCalls' = execWaitCalls + 1
    /\ IF ~isStarted
       THEN /\ execWaitResult' = ErrExecutorNotStarted
            /\ UNCHANGED <<ewPc, osWaits>>
       ELSE IF isFinished
       THEN /\ execWaitResult' = NoErr
            /\ UNCHANGED <<ewPc, osWaits>>
       ELSE /\ ewPc' = "oswait"
            /\ osWaits' = osWaits + 1
            /\ UNCHANGED execWaitResult
    /\ UNCHANGED <<handleVars, relayVars, flagVars, childVars, cmdWaitErr,
                   startCalls, startResult, execStops, execStopResult,
                   procVars>>
    /\ UNCHANGED lifeVars

\* ExecutorWaitReturn with every error of e.cmd.Wait() returned to the
\* caller, the *exec.ExitError of a non-zero exit included.
ExecutorWaitReturnExitIsError(fail) ==
    /\ ewPc = "oswait"
    /\ ewPc' = "idle"
    /\ isFinished' = TRUE
    /\ notified' = "stopped"
    /\ signalChan' = "closed"
    /\ CmdClosesPipes
    /\ UNCHANGED <<ctxKilled, cleanupCalls, queried, heard>>
    /\ IF fail
       THEN /\ cmdWaitErr' = "oserr"
            /\ execWaitResult' = ErrWaitFailed
            /\ UNCHANGED <<exitCode, proc>>
       ELSE /\ proc = "exited"
            /\ proc' = "reaped"
            /\ cmdWaitErr' = IF procCode = 0 THEN "nil" ELSE "exit"
            /\ exitCode' = IF procCode = 0 THEN exitCode ELSE procCode
            /\ execWaitResult' = IF procCode = 0 THEN NoErr ELSE ErrWaitFailed
    /\ UNCHANGED <<command, newResult, cancel, sigBuf, relayPc, osSignals,
                   isStarted, procCode, delivered, spawned, osWaits, startCalls,
                   startResult, execWaitCalls, execStops, execStopResult,
                   procVars>>

\* e.cmd.Wait() returns, when the child has ended or with a failure of the
\* wait itself; it has closed the two pipes.  Then isFinished = true,
\* signal.Stop, close(signalChan);
\* an *exec.ExitError gives the exit code and nil, any other error is
\* returned as "command execution failed".
ExecutorWaitReturn(fail) ==
    /\ ewPc = "oswait"
    /\ ewPc' = "idle"
    /\ isFinished' = TRUE
    /\ notified' = "stopped"
    /\ signalChan' = "closed"
    /\ CmdClosesPipes
    /\ UNCHANGED <<ctxKilled, cleanupCalls, queried, heard>>
    /\ IF fail
       THEN /\ cmdWaitErr' = "oserr"
            /\ execWaitResult' = ErrWaitFailed
            /\ UNCHANGED <<exitCode, proc>>
       ELSE /\ proc = "exited"
            /\ proc' = "reaped"
            /\ cmdWaitErr' = IF procCode = 0 THEN "nil" ELSE "exit"
            /\ exitCode' = IF procCode = 0 THEN exitCode ELSE procCode
            /\ execWaitResult' = NoErr
    /\ UNCHANGED <<command, newResult, cancel, sigBuf, relayPc, osSignals,
                   isStarted, procCode, delivered, spawned, osWaits, startCalls,
                   startResult, execWaitCalls, execStops, execStopResult,
                   procVars>>

\* GetExitCode with a code that is set only once the Executor is finished.
GetExitCodeUnset == IF isFinished THEN exitCode ELSE KilledCode

\* GetExitCode() and IsFinished()
GetExitCode == exitCode
IsFinished == isFinished

\* A caller asks for GetExitCode() and keeps the answer.
ExecutorGetExitCode ==
    /\ newResult = "ok"
    /\ queried.code # <<GetExitCode>>
    /\ queried' = [queried EXCEPT !.code = <<GetExitCode>>]
    /\ UNCHANGED <<handleVars, relayVars, flagVars, childVars, callVars,
                   ctxKilled, cleanupCalls, closeCalls, parentIOPipes, heard,
                   procVars>>

\* A caller asks for IsFinished() and keeps the answer.
ExecutorIsFinished ==
    /\ newResult = "ok"
    /\ queried.finished # <<IsFinished>>
    /\ queried' = [queried EXCEPT !.finished = <<IsFinished>>]
    /\ UNCHANGED <<handleVars, relayVars, flagVars, childVars, callVars,
                   ctxKilled, cleanupCalls, closeCalls, parentIOPipes, heard,
                   procVars>>

\* if e.cmd.Process != nil { e.cmd.Process.Signal(sig) }, or Kill(): the
\* signal is sent unless the process has been waited for already, which is
\* an error (os.ErrProcessDone).
SendSignal(sig, err, by) ==
    IF proc = "none"
    THEN execStopResult' = NoErr /\ UNCHANGED delivered
    ELSE IF proc = "reaped"
    THEN execStopResult' = err /\ UNCHANGED delivered
    ELSE /\ execStopResult' = NoErr
         /\ delivered' = Append(delivered, [sig |-> sig, by |-> by])

\* ExecutorStop with "if !e.isStarted" as its only guard.
ExecutorStopNoFinishedCheck ==
    /\ newResult = "ok"
    /\ execStops < MaxExecStops
    /\ execStops' = execStops + 1
    /\ IF ~isStarted
       THEN /\ execStopResult' = NoErr
            /\ UNCHANGED <<cancel, delivered>>
       ELSE /\ cancel' = "cancelled"
            /\ SendSignal("SIGTERM", ErrSigterm, "Stop")
    /\ UNCHANGED <<command, newResult, pipes, relayVars, flagVars, proc,
                   procCode, spawned, osWaits, cmdWaitErr, startCalls,
                   startResult, ewPc, execWaitCalls, execWaitResult, procVars>>
    /\ UNCHANGED lifeVars

\* Stop(): nil when not started or finished; otherwise e.cancel() and
\* SIGTERM to the child.
ExecutorStop ==
    /\ newResult = "ok"
    /\ execStops < MaxExecStops
    /\ execStops' = execStops + 1
    /\ IF ~isStarted \/ isFinished
       THEN /\ execStopResult' = NoErr
            /\ UNCHANGED <<cancel, delivered>>
       ELSE /\ cancel' = "cancelled"
            /\ SendSignal("SIGTERM", ErrSigterm, "Stop")
    /\ UNCHANGED <<command, newResult, pipes, relayVars, flagVars, proc,
                   procCode, spawned, osWaits, cmdWaitErr, startCalls,
                   startResult, ewPc, execWaitCalls, execWaitResult, procVars>>
    /\ UNCHANGED lifeVars

\* Kill(): nil when not started or finished; otherwise e.cancel() and
\* e.cmd.Process.Kill().
ExecutorKill ==
    /\ newResult = "ok"
    /\ execStops < MaxExecStops
    /\ execStops' = execStops + 1
    /\ IF ~isStarted \/ isFinished
       THEN /\ execStopResult' = NoErr
            /\ UNCHANGED <<cancel, delivered>>
       ELSE /\ cancel' = "cancelled"
            /\ SendSignal("SIGKILL", ErrKill, "Kill")
    /\ UNCHANGED <<command, newResult, pipes, relayVars, flagVars, proc,
                   procCode, spawned, osWaits, cmdWaitErr, startCalls,
                   startResult, ewPc, execWaitCalls, execWaitResult, procVars>>
    /\ UNCHANGED lifeVars

\* exec.CommandContext: once the context is cancelled, os/exec kills the
\* started child (os.Process.Kill) unless e.cmd.Wait() has returned.
CommandContextKill ==
    /\ cancel = "cancelled"
    /\ proc \in {"running", "exited"}
    /\ cmdWaitErr = "none"
    /\ ~ctxKilled
    /\ ctxKilled' = TRUE
    /\ delivered' = Append(delivered, [sig |-> "SIGKILL", by |-> "ctx"])
    /\ UNCHANGED <<handleVars, relayVars, flagVars, proc, procCode, spawned,
                   callVars, cleanupCalls, closeCalls, parentIOPipes, queried,
                   heard, procVars>>

\* ExecutorCleanup with the stderr pipe forgotten.
ExecutorCleanupStdoutOnly ==
    /\ newResult = "ok"
    /\ cleanupCalls < MaxCleanups
    /\ cleanupCalls' = cleanupCalls + 1
    /\ pipes' = [pipes EXCEPT ![StreamStdout] = "closed"]
    /\ closeCalls' = [closeCalls EXCEPT ![StreamStdout] = @ + 1]
    /\ cancel' = "cancelled"
    /\ UNCHANGED <<command, newResult, relayVars, flagVars, childVars,
                   callVars, ctxKilled, parentIOPipes, queried, heard,
                   procVars>>

\* Cleanup(): Close() on stdoutPipe and on stderrPipe, which are never nil
\* in an Executor that New returned, and e.cancel().
ExecutorCleanup ==
    /\ newResult = "ok"
    /\ cleanupCalls < MaxCleanups
    /\ cleanupCalls' = cleanupCalls + 1
    /\ pipes' = [s \in Streams |-> "closed"]
    /\ closeCalls' = [s \in Streams |-> closeCalls[s] + 1]
    /\ cancel' = "cancelled"
    /\ UNCHANGED <<command, newResult, relayVars, flagVars, childVars,
                   callVars, ctxKilled, parentIOPipes, queried, heard,
                   procVars>>

\* The operating system sends the wrapper one of the RelayedSignals: the
\* runtime puts it into signalChan unless the channel is full.
OsSignal(sig) ==
    /\ notified = "notified"
    /\ osSignals < MaxSignals
    /\ osSignals' = osSignals + 1
    /\ sigBuf' = IF Len(sigBuf) < 1 THEN Append(sigBuf, sig) ELSE sigBuf
    /\ heard' = IF isStarted /\ ~isFinished THEN Append(heard, sig) ELSE heard
    /\ UNCHANGED <<ctxKilled, cleanupCalls, closeCalls, parentIOPipes, queried>>
    /\ UNCHANGED <<handleVars, notified, signalChan, relayPc, flagVars,
                   childVars, callVars, procVars>>

\* for sig := range e.signalChan: the signal is sent on to the child when
\* the Executor is started and not finished and has a process.
RelayForward ==
    /\ relayPc = "range"
    /\ Len(sigBuf) > 0
    /\ sigBuf' = Tail(sigBuf)
    /\ delivered' = IF isStarted /\ ~isFinished /\ proc \in {"running", "exited"}
                    THEN Append(delivered,
                                [sig |-> Head(sigBuf), by |-> "relay"])
                    ELSE delivered
    /\ UNCHANGED <<handleVars, notified, signalChan, relayPc, osSignals,
                   flagVars, proc, procCode, spawned, callVars, procVars>>
    /\ UNCHANGED lifeVars

\* The range loop ends when signalChan is closed and empty.
RelayExit ==
    /\ relayPc = "range"
    /\ signalChan = "closed"
    /\ sigBuf = <<>>
    /\ relayPc' = "exited"
    /\ UNCHANGED <<handleVars, notified, signalChan, sigBuf, osSignals,
                   flagVars, childVars, callVars, procVars>>
    /\ UNCHANGED lifeVars

\* ------------------------------------------------------- specifications
Next ==
    \/ \E s \in Streams, l \in Lines : Produce(s, l)
    \/ \E s \in Streams, how \in Endings : EndStream(s, how)
    \/ CancelCtx
    \/ \E s \in Streams : TaskScan(s)
    \/ \E s \in Streams : TaskCheck(s)
    \/ \E s \in Streams : TaskWriteEnd(s)
    \/ \E s \in Streams : TaskExit(s)
    \/ \E a, b \in BOOLEAN : ProcessStreamsCall(a, b)
    \/ ProcessStreamsReturn

Spec == Init /\ [][Next]_vars

\* The Processor with Stop() and Wait(timeout) called beside a running
\* ProcessStreams: a sink that never fails, ordinary lines and streams that
\* end at end-of-file.
InitApi == Init /\ failAfter = NoFail

NextApi ==
    \/ \E s \in Streams : Produce(s, "a")
    \/ \E s \in Streams : EndStream(s, "eof")
    \/ CancelCtx
    \/ \E s \in Streams : TaskScan(s)
    \/ \E s \in Streams : TaskCheck(s)
    \/ \E s \in Streams : TaskWriteEnd(s)
    \/ \E s \in Streams : TaskExit(s)
    \/ ProcessStreamsCall(FALSE, FALSE)
    \/ ProcessStreamsReturn
    \/ \E c \in StopCallers : StopBegin(c)
    \/ \E c \in StopCallers : StopSlow(c)
    \/ \E d \in Durations : WaitCall(d)
    \/ WaitHelper
    \/ WaitDone
    \/ WaitTimeout

SpecApi == InitApi /\ [][NextApi]_vars

\* GetErrors() called beside a running ProcessStreams whose reader tasks
\* fail: a sink that fails at its first or second write, ordinary lines,
\* streams that end at end-of-file or with a read error.
InitGet == Init /\ failAfter # NoFail

NextGet ==
    \/ \E s \in Streams : Produce(s, "a")
    \/ \E s \in Streams, how \in {"eof", "ioerr"} : EndStream(s, how)
    \/ \E s \in Streams : TaskScan(s)
    \/ \E s \in Streams : TaskCheck(s)
    \/ \E s \in Streams : TaskWriteEnd(s)
    \/ \E s \in Streams : TaskExit(s)
    \/ ProcessStreamsCall(FALSE, FALSE)
    \/ ProcessStreamsReturn
    \/ GetErrors
    \/ CallerOverwrites

SpecGet == InitGet /\ [][NextGet]_vars

\* executor.New with every command vector, and Start on what it returns;
\* the Processor stays as New left it.
InitExec == Init /\ failAfter = NoFail

NextNew ==
    \/ \E cmd \in Commands, pipeFail \in PipeFailures : ExecutorNew(cmd, pipeFail)
    \/ \E ok \in BOOLEAN : ExecutorStart(ok)

SpecNew == InitExec /\ [][NextNew]_vars

\* The calls that take one Executor of the command "sh" from New to the
\* end of its child, and what the library and the child do in between.
ExecLifecycle ==
    \/ \E pipeFail \in PipeFailures : ExecutorNew(<< <<"sh">> >>, pipeFail)
    \/ \E ok \in BOOLEAN : ExecutorStart(ok)
    \/ \E code \in ExitCodes \cup {KilledCode} : ChildExit(code)
    \/ ExecutorWaitCall
    \/ \E fail \in BOOLEAN : ExecutorWaitReturn(fail)
    \/ RelayExit

\* One Executor with any calls of Start, Wait, Stop and Kill; no signal
\* reaches the wrapper from outside.
NextExec ==
    \/ ExecLifecycle
    \/ ExecutorStop
    \/ ExecutorKill
    \/ CommandContextKill

SpecExec == InitExec /\ [][NextExec]_vars

\* One Executor whose caller never calls Stop or Kill, with signals sent
\* to the wrapper from outside.
NextRelay ==
    \/ ExecLifecycle
    \/ \E sig \in RelayedSignals : OsSignal(sig)
    \/ RelayForward

SpecRelay == InitExec /\ [][NextRelay]_vars

\* One Executor whose caller calls Start, Wait, Stop, Kill, Cleanup() and
\* the two queries at any point; no signal reaches the wrapper from outside.
NextLife ==
    \/ ExecLifecycle
    \/ ExecutorStop
    \/ ExecutorKill
    \/ CommandContextKill
    \/ ExecutorCleanup
    \/ ExecutorGetExitCode
    \/ ExecutorIsFinished

SpecLife == InitExec /\ [][NextLife]_vars

\* The scheduler runs every goroutine that can take a step; the child and
\* the owner of ctx are under no obligation.
Fairness ==
    /\ \A s \in Streams : WF_vars(TaskScan(s))
    /\ \A s \in Streams : WF_vars(TaskCheck(s))
    /\ \A s \in Streams : WF_vars(TaskWriteEnd(s))
    /\ \A s \in Streams : WF_vars(TaskExit(s))
    /\ WF_vars(ProcessStreamsReturn)

FairSpec == Init /\ [][Next]_vars /\ Fairness

\* ------------------------------------------------------------ properties
Range(f) == {f[i] : i \in DOMAIN f}

\* The first n lines of stream s as processStream hands them to Write.
Formatted(s, n) == [i \in 1..n |-> Chunk(input[s][i], s)]

\* What the sink accepted from stream s, in the order it accepted it.
SinkOf(s) ==
    LET sel == SelectSeq(sink, LAMBDA r : r.stream = s)
    IN  [i \in 1..Len(sel) |-> sel[i].data]

\* The errors in the collector that are tagged with stream s.
ErrorsOf(s) == SelectSeq(errors, LAMBDA e : e.stream = s)

Active(s) == pc[s] \notin {"idle", "done"}

\* The task of s ran to the end of its stream: no write failure, no exit
\* on cancellation, no read fault, no handle closed under it.
Clean(s) == pc[s] = "done" /\ ret[s] = NoErr /\ ended[s] = "eof"

\* The task of s stopped on an I/O fault of its own.
Fault(s) == pc[s] \in {"exit", "done"} /\ ret[s] \in {ErrWrite, ErrScanner}

\* C1: within one stream the lines reach the sink in the order read: what
\* the task has passed to Write is always FormatLine(line, kind) + "\n" of
\* the lines read so far, one write per line, the sink holds them in that
\* order, and a task that ran to end-of-stream has written every line.
C1_PerStreamOrder ==
    \A s \in Streams :
        /\ Len(calls[s]) <= pos[s]
        /\ calls[s] = Formatted(s, Len(calls[s]))
        /\ Len(SinkOf(s)) <= Len(calls[s])
        /\ SinkOf(s) = SubSeq(calls[s], 1, Len(SinkOf(s)))
        /\ Clean(s) =>
              /\ calls[s] = Formatted(s, Len(input[s]))
              /\ SinkOf(s) = calls[s]

C1_Witness ==
    /\ psPc = "returned"
    /\ Clean(StreamStdout) /\ Clean(StreamStderr)
    /\ input[StreamStdout] = <<"a", "">>
    /\ input[StreamStderr] = <<"a">>
    /\ SinkOf(StreamStdout) = <<"[INFO] a\n", "\n">>

\* C2: N lines on stdout and M lines on stderr, both read to end-of-stream
\* without fault, give exactly N+M writes at the sink when ProcessStreams
\* has returned: N of stdout and M of stderr, whatever the interleaving.
C2_CountNPlusM ==
    (psPc = "returned" /\ Clean(StreamStdout) /\ Clean(StreamStderr)) =>
        /\ Len(sink) = Len(input[StreamStdout]) + Len(input[StreamStderr])
        /\ \A s \in Streams :
              Cardinality({i \in 1..Len(sink) : sink[i].stream = s})
                  = Len(input[s])
        /\ psResult.err = NoErr

C2_Witness ==
    /\ psPc = "returned"
    /\ Clean(StreamStdout) /\ Clean(StreamStderr)
    /\ Len(input[StreamStdout]) = 2
    /\ Len(input[StreamStderr]) = 1
    /\ Len(sink) = 3
    /\ sink[2].stream = StreamStderr

\* C3: the Stream Processor serializes the writes to the sink: the stdout
\* task and the stderr task are never both inside Write.
C3_WritesSerialized ==
    ~(pc[StreamStdout] = "inwrite" /\ pc[StreamStderr] = "inwrite")

\* C4: ProcessStreams has returned only when both of its reader tasks have
\* terminated, and its result carries every error the two tasks recorded.
C4_ResultAfterTasks ==
    psPc = "returned" =>
        /\ \A s \in Streams : ~Active(s)
        /\ wg = 0
        /\ psResult.err # ErrReadersNil =>
              /\ psResult.errors = errors
              /\ \A s \in Streams :
                    ret[s] # NoErr =>
                        /\ psResult.err = ErrProcessingErrors
                        /\ [stream |-> s, cause |-> ret[s]]
                               \in Range(psResult.errors)
              /\ psResult.err = NoErr <=> \A s \in Streams : ret[s] = NoErr

C4_Witness ==
    /\ psPc = "returned"
    /\ ret[StreamStdout] = ErrWrite
    /\ ret[StreamStderr] = ErrScanner
    /\ Len(psResult.errors) = 2

\* C5: an I/O fault of one task (write failure, read fault) ends that task
\* only: it is recorded as exactly one error tagged with its stream and makes
\* ProcessStreams fail; the sibling stops only for a reason of its own, and a
\* sibling that stopped without error has reached the end of its own stream
\* and delivered all its lines.
C5_FaultIsolation ==
    \A s \in Streams :
        /\ (pc[s] = "done" /\ Fault(s)) =>
              ErrorsOf(s) = << [stream |-> s, cause |-> ret[s]] >>
        /\ (psPc = "returned" /\ Fault(s)) =>
              psResult.err = ErrProcessingErrors
        /\ (Fault(s) /\ pc[Other(s)] = "done") =>
              /\ ret[Other(s)] = NoErr => ended[Other(s)] \in {"eof", "closed"}
              /\ Clean(Other(s)) =>
                    SinkOf(Other(s)) = Formatted(Other(s), Len(input[Other(s)]))
              /\ ret[Other(s)] = ErrCancelled => ctxDone
              /\ ret[Other(s)] = ErrScanner =>
                    ended[Other(s)] \in {"ioerr", "toolong"}
              /\ ret[Other(s)] = ErrWrite =>
                    (failAfter # NoFail /\ writeCount > failAfter)

C5_Witness ==
    /\ psPc = "returned"
    /\ ret[StreamStderr] = ErrScanner
    /\ ended[StreamStderr] = "toolong"
    /\ Clean(StreamStdout)
    /\ Len(SinkOf(StreamStdout)) = 2
    /\ errors = << [stream |-> StreamStderr, cause |-> ErrScanner] >>
    /\ psResult.err = ErrProcessingErrors

\* C6 as claimed: a cancellation is never reported as a stream fault: the
\* collector gains no entry for it, and a call without any I/O fault does
\* not fail.
C6_CancelNeverReported ==
    /\ \A i \in 1..Len(errors) : errors[i].cause # ErrCancelled
    /\ (psPc = "returned" /\ psResult.err = ErrProcessingErrors) =>
          \E s \in Streams : Fault(s)

\* C6 as amended: a task that reads a line after the cancellation exits at
\* its check without writing that line, and this exit is recorded as exactly
\* one "context cancelled" error tagged with its stream, so ProcessStreams
\* fails; a task leaves a line it has read unwritten for no other reason,
\* and a call in which no task returned an error succeeds.
C6_CancelReportedAtCheck ==
    /\ \A s \in Streams :
          /\ (pc[s] \in {"exit", "done"} /\ Len(calls[s]) < pos[s]) <=>
                ret[s] = ErrCancelled
          /\ ret[s] = ErrCancelled => ctxDone
          /\ (pc[s] = "done" /\ ret[s] = ErrCancelled) =>
                ErrorsOf(s) = << [stream |-> s, cause |-> ErrCancelled] >>
          /\ (psPc = "returned" /\ ret[s] = ErrCancelled) =>
                psResult.err = ErrProcessingErrors
    /\ (psPc = "returned" /\ psResult.err # ErrReadersNil
            /\ \A s \in Streams : ret[s] = NoErr) =>
          psResult.err = NoErr

C6_Witness ==
    /\ psPc = "returned"
    /\ ctxDone
    /\ ret[StreamStdout] = ErrCancelled
    /\ pos[StreamStdout] = 2
    /\ Len(SinkOf(StreamStdout)) = 1
    /\ Clean(StreamStderr)
    /\ psResult.err = ErrProcessingErrors

\* C7: once the cancellation signal has fired, a running ProcessStreams
\* eventually returns, whatever the two streams do afterwards.
C7_CancelLeadsToReturn ==
    (ctxDone /\ psPc = "waiting") ~> (psPc = "returned")

\* C8: after Stop() has fired its cancel, a reader task that comes to its
\* line-boundary check stops there: it does not go on to write the line.
C8_StopStopsReaders ==
    [][\A s \in Streams :
          (ownCtxDone /\ pc[s] = "check") => pc'[s] \in {"check", "exit"}]_vars

\* C9: Stop() is idempotent with exactly-once semantics: however many
\* callers run Stop(), one after the other or at the same time, before or
\* during processing, p.cancel() has run at most once, it has run exactly
\* once as soon as one call has returned, and the cancellation then stays.
C9_StopExactlyOnce ==
    /\ cancelCalls <= 1
    /\ onceDone <=> cancelCalls = 1
    /\ ownCtxDone <=> cancelCalls = 1
    /\ \A c \in StopCallers : stopCount[c] > 0 => (onceDone /\ ownCtxDone)

C9_Witness ==
    /\ psPc = "idle"
    /\ stopCount["user"] = 2
    /\ stopPc["wait"] = "slow"
    /\ onceDone
    /\ cancelCalls = 1

\* C10: whenever Wait returns no error, no reader task of the Processor is
\* active at that moment.
C10_WaitOkMeansTasksDone ==
    [][(wPc = "select" /\ wPc' = "returned" /\ wResult' = NoErr) =>
          \A s \in Streams : ~Active(s)]_vars

\* C11: when Wait takes its timeout branch it runs Stop() and then returns
\* the processor-timeout error, which carries the timeout it was called
\* with; once the branch is taken the call cannot return success.
C11_TimeoutStopsAndFails ==
    [][/\ (wResult' = ErrProcessorTimeout /\ wResult # ErrProcessorTimeout)
          => /\ stopCount'["wait"] = stopCount["wait"] + 1
             /\ onceDone' /\ cancelCalls' = 1
             /\ wAfter' = wTimeout
       /\ (wPc = "stopping" /\ wPc' # "stopping")
          => (wPc' = "returned" /\ wResult' = ErrProcessorTimeout)
       /\ (wPc = "select" /\ wPc' = "returned")
          => (wResult' = NoErr /\ hPc = "closed")]_vars

C11_Witness ==
    /\ wPc = "returned"
    /\ wResult = ErrProcessorTimeout
    /\ wAfter = "30ms"
    /\ \E s \in Streams : Active(s)
    /\ stopCount["user"] = 0
    /\ onceDone

\* C12: the list GetErrors() returns is a copy of the collector as it is
\* at that moment: as long as its caller leaves it alone it stays a prefix
\* of the collector, an append by a reader task does not change it, and a
\* change the caller makes to it does not change the collector, which only
\* ever grows at its end.
C12_GetErrorsSnapshot ==
    [][/\ getCalls' = getCalls + 1 => got' = errors
       /\ (~gotChanged' /\ getCalls' > 0)
          => (Len(got') <= Len(errors') /\ got' = SubSeq(errors', 1, Len(got')))
       /\ (getCalls' = getCalls /\ gotChanged' = gotChanged) => got' = got
       /\ Len(errors) <= Len(errors') /\ errors = SubSeq(errors', 1, Len(errors))
      ]_vars

C12_Witness ==
    /\ gotChanged
    /\ Len(got) = 1
    /\ Len(errors) = 2
    /\ errors[1] # Overwritten
    /\ psPc = "waiting"

\* C13: a ProcessStreams call given a nil stdout reader, a nil stderr
\* reader or both returns ErrReadersNil at once: no reader goroutine is
\* started, the WaitGroup is not touched, nothing is written to the sink
\* and nothing is added to the error collector.
C13_ReadersNil ==
    (psPc # "idle" /\ (psArgs.stdoutNil \/ psArgs.stderrNil)) =>
        /\ psPc = "returned"
        /\ psResult = [err |-> ErrReadersNil, errors |-> <<>>]
        /\ \A s \in Streams : pc[s] = "idle" /\ calls[s] = <<>>
        /\ wg = 0
        /\ sink = <<>>
        /\ errors = <<>>

C13_Witness ==
    /\ psResult.err = ErrReadersNil
    /\ ~psArgs.stdoutNil
    /\ psArgs.stderrNil
    /\ Len(input[StreamStdout]) > 0

\* ---- Executor
NoResources ==
    /\ cancel = "none"
    /\ \A s \in Streams : pipes[s] = "none"
    /\ notified = "none"
    /\ signalChan = "none"
    /\ relayPc = "none"
    /\ proc = "none"
    /\ spawned = 0

\* C14: New with an empty command vector returns ErrCommandEmpty and no
\* Executor, and has created neither the context nor a pipe nor the signal
\* subscription and its goroutine.
C14_EmptyCommand ==
    (newResult # "none" /\ command = <<>>) =>
        (newResult = ErrCommandEmpty /\ NoResources)

C14_Witness ==
    /\ newResult = ErrCommandEmpty
    /\ command = <<>>

\* C15: New returns ErrCommandPathTraversal and no Executor, with no pipe
\* created and nothing spawned, whenever the cleaned command[0] has a ".."
\* segment.
C15_PathTraversal ==
    (/\ newResult # "none"
     /\ command # <<>>
     /\ \E i \in 1..Len(CleanPath(command[1])) : CleanPath(command[1])[i] = "..") =>
        (newResult = ErrCommandPathTraversal /\ NoResources)

C15_Witness ==
    /\ newResult = ErrCommandPathTraversal
    /\ command = << <<".", "..", "sh">> >>
    /\ CleanPath(command[1]) = <<"..", "sh">>

\* C16: every Start() call after the first one on the same Executor
\* returns ErrExecutorStarted and spawns no process.
C16_StartOnce ==
    [][(startCalls' = startCalls + 1 /\ startCalls >= 1) =>
          (startResult' = ErrExecutorStarted /\ spawned' = spawned)]_vars

\* C17: Wait() on an Executor that is not started returns
\* ErrExecutorNotStarted and changes nothing: isStarted and isFinished stay
\* false, exitCode stays 0, the signal subscription, its channel and
\* goroutine, the pipes, the context and the child are as they were, and
\* e.cmd.Wait() is not called.
C17_WaitNotStarted ==
    [][(execWaitCalls' = execWaitCalls + 1 /\ ~isStarted) =>
          /\ execWaitResult' = ErrExecutorNotStarted
          /\ ewPc' = "idle"
          /\ ~isStarted' /\ ~isFinished' /\ exitCode' = 0
          /\ UNCHANGED <<relayVars, handleVars, childVars, osWaits>>]_vars

C17_Witness ==
    /\ execWaitResult = ErrExecutorNotStarted
    /\ startResult = ErrStartFailed
    /\ execWaitCalls = 2
    /\ notified = "notified"

\* C18: once the child has ended and a Wait() that ran e.cmd.Wait() has
\* returned, every further Wait() returns nil in the same step, does not
\* call e.cmd.Wait() again and leaves exitCode and isFinished as they are.
C18_WaitIdempotent ==
    [][(/\ execWaitCalls' = execWaitCalls + 1
        /\ osWaits >= 1
        /\ proc \in {"exited", "reaped"}) =>
          /\ execWaitResult' = NoErr
          /\ ewPc' = "idle"
          /\ osWaits' = osWaits
          /\ exitCode' = exitCode
          /\ isFinished /\ isFinished']_vars

C18_Witness ==
    /\ execWaitCalls = 2
    /\ osWaits = 1
    /\ proc = "reaped"
    /\ execWaitResult = NoErr
    /\ exitCode = 42

ExitStatus(code) == code % 256

\* The numbers of the signals that New subscribes to.
SigNum(sig) ==
    IF sig = "SIGINT" THEN 2 ELSE IF sig = "SIGQUIT" THEN 3 ELSE 15

\* run has not ended the wrapper.
Alive == runExit = <<>>

\* exec, err := executor.New(command)
RunExecutorNew(pipeFail) ==
    /\ Alive
    /\ newResult = "none"
    /\ ExecutorNew(<< <<"sh">> >>, pipeFail)

\* form, err := formatter.New(cfg); proc := processor.New(form, os.Stdout)
RunFormatterNew(ok) ==
    /\ Alive
    /\ newResult = "ok"
    /\ formResult = "none"
    /\ formResult' = IF ok THEN "ok" ELSE "err"
    /\ UNCHANGED <<streamVars, ctxDone, taskVars, sinkVars, errors, wg,
                   psVars, stopVars, waitVars, getVars, execVars, runExit,
                   auxVars>>

\* exec.Start()
RunStart(ok) ==
    /\ Alive
    /\ formResult = "ok"
    /\ startCalls = 0
    /\ ExecutorStart(ok)

\* go func() { processingDone <- proc.ProcessStreams(ctx, stdout, stderr) }()
RunProcessStreams ==
    /\ Alive
    /\ startResult = NoErr
    /\ ProcessStreamsCall(FALSE, FALSE)

\* exec.Wait() is called
RunWaitCall ==
    /\ Alive
    /\ startResult = NoErr
    /\ execWaitCalls = 0
    /\ ExecutorWaitCall

\* exec.Wait() returns
RunWaitReturn(fail) ==
    /\ Alive
    /\ ExecutorWaitReturn(fail)

\* run returns an error from any of its four checks; main prints it and
\* calls os.Exit(1).
RunReturnError ==
    /\ Alive
    /\ \/ newResult \notin {"none", "ok"}
       \/ formResult = "err"
       \/ startResult = ErrStartFailed
       \/ ewPc = "idle" /\ execWaitResult = ErrWaitFailed
    /\ runExit' = <<1>>
    /\ UNCHANGED <<streamVars, ctxDone, taskVars, sinkVars, errors, wg,
                   psVars, stopVars, waitVars, getVars, execVars, formResult,
                   auxVars>>

\* <-processingDone has the result of ProcessStreams, and
\* os.Exit(exec.GetExitCode())
RunExit ==
    /\ Alive
    /\ ewPc = "idle"
    /\ execWaitResult = NoErr
    /\ psPc = "returned"
    /\ runExit' = <<ExitStatus(GetExitCode)>>
    /\ UNCHANGED <<streamVars, ctxDone, taskVars, sinkVars, errors, wg,
                   psVars, stopVars, waitVars, getVars, execVars, formResult,
                   auxVars>>

\* The child writes one more line to stream s.
RunProduce(s) ==
    /\ Alive
    /\ proc = "running"
    /\ Len(input[StreamStdout]) + Len(input[StreamStderr]) < MaxRunLines
    /\ Produce(s, "a")

\* The child's end of s is closed when the child has ended.
ChildGone(s) ==
    /\ Alive
    /\ proc \in {"exited", "reaped"}
    /\ EndStream(s, "eof")

\* The reader of s finds its pipe closed by e.cmd.Wait().
PipeClosed(s) ==
    /\ Alive
    /\ pipes[s] = "closed"
    /\ EndStream(s, "closed")

\* The goroutines of the wrapper and its child take their steps as long
\* as the wrapper lives.
RunScan(s) == Alive /\ TaskScan(s)
RunCheck(s) == Alive /\ TaskCheck(s)
RunWrite(s) == Alive /\ TaskWriteEnd(s)
RunTaskExit(s) == Alive /\ TaskExit(s)
RunProcessStreamsReturn == Alive /\ ProcessStreamsReturn
RunChildExit(code) == Alive /\ ChildExit(code)
RunOsSignal(sig) == Alive /\ osSignals < MaxRunSignals /\ OsSignal(sig)
RunRelayForward == Alive /\ RelayForward
RunRelayExit == Alive /\ RelayExit

\* The wrapper from the call of run to its exit: the child writes lines,
\* ends by itself or by a signal, and the wrapper is sent signals.
NextRun ==
    \/ \E pipeFail \in PipeFailures : RunExecutorNew(pipeFail)
    \/ \E ok \in BOOLEAN : RunFormatterNew(ok)
    \/ \E ok \in BOOLEAN : RunStart(ok)
    \/ RunProcessStreams
    \/ RunWaitCall
    \/ \E fail \in BOOLEAN : RunWaitReturn(fail)
    \/ RunReturnError
    \/ RunExit
    \/ \E s \in Streams : RunProduce(s)
    \/ \E s \in Streams : ChildGone(s)
    \/ \E s \in Streams : PipeClosed(s)
    \/ \E s \in Streams : RunScan(s)
    \/ \E s \in Streams : RunCheck(s)
    \/ \E s \in Streams : RunWrite(s)
    \/ \E s \in Streams : RunTaskExit(s)
    \/ RunProcessStreamsReturn
    \/ \E code \in ExitCodes \cup {KilledCode} : RunChildExit(code)
    \/ \E sig \in RelayedSignals : RunOsSignal(sig)
    \/ RunRelayForward
    \/ RunRelayExit

SpecRun == InitExec /\ [][NextRun]_vars

\* The scheduler runs every goroutine of the wrapper that can take a step,
\* the library calls return (e.cmd.Wait() when the child has ended), the
\* operating system closes the pipes of a child that has ended, and a
\* child that was sent SIGKILL ends.  A child that was not is under no
\* obligation to end.
RunFairness ==
    /\ \A pipeFail \in PipeFailures : WF_vars(RunExecutorNew(pipeFail))
    /\ WF_vars(\E ok \in BOOLEAN : RunFormatterNew(ok))
    /\ WF_vars(\E ok \in BOOLEAN : RunStart(ok))
    /\ WF_vars(RunProcessStreams)
    /\ WF_vars(RunWaitCall)
    /\ WF_vars(RunWaitReturn(FALSE))
    /\ WF_vars(RunReturnError)
    /\ WF_vars(RunExit)
    /\ \A s \in Streams : WF_vars(ChildGone(s))
    /\ \A s \in Streams : WF_vars(PipeClosed(s))
    /\ \A s \in Streams : WF_vars(RunScan(s))
    /\ \A s \in Streams : WF_vars(RunCheck(s))
    /\ \A s \in Streams : WF_vars(RunTaskExit(s))
    /\ WF_vars(RunProcessStreamsReturn)
    /\ WF_vars(RunRelayForward)
    /\ WF_vars(RunRelayExit)
    /\ WF_vars(RunChildExit(KilledCode)
               /\ \E i \in 1..Len(delivered) : delivered[i].sig = "SIGKILL")

\* Whoever reads the wrapper's standard output takes what is written to it.
SinkFairness == \A s \in Streams : WF_vars(RunWrite(s))

\* run with an output that is always taken
FairRun == SpecRun /\ RunFairness /\ SinkFairness

\* run with an output that may stay blocked
FairDrain == SpecRun /\ RunFairness

\* C21: a SIGKILL reaches the child only when Kill() has sent one: Stop()
\* sends SIGTERM and nothing more forceful follows from it.
C21_StopIsGraceful ==
    \A i \in 1..Len(delivered) :
        delivered[i].sig = "SIGKILL" =>
            \E j \in 1..i : delivered[j].by = "Kill"

C23_ForwardOnly ==
    [][/\ (isStarted => isStarted')
       /\ (isFinished => isFinished')
       /\ (isFinished' => isStarted')
       /\ ((isFinished \/ startResult = ErrStartFailed) =>
            /\ (isFinished' \/ startResult' = ErrStartFailed)
            /\ exitCode' = exitCode)]_vars

\* C24: no stream handle has Close() called on it twice, and when run has
\* ended the wrapper each handle that New made was closed exactly once.
C24_ClosedExactlyOnce ==
    /\ \A s \in Streams : closeCalls[s] <= 1
    /\ (newResult = "ok" /\ ~Alive) => \A s \in Streams : closeCalls[s] = 1

\* C25: every Cleanup() call leaves both stream handles closed and the
\* context cancelled, they stay so whatever is called afterwards, and a
\* Cleanup() after the first changes nothing of the Executor or its child.
C25_CleanupIdempotent ==
    [][/\ (cleanupCalls' >= 1 =>
            /\ \A s \in Streams : pipes'[s] = "closed"
            /\ cancel' = "cancelled")
       /\ (cleanupCalls' = cleanupCalls + 1 /\ cleanupCalls >= 1 =>
            UNCHANGED <<handleVars, relayVars, flagVars, childVars, callVars,
                        ctxKilled, parentIOPipes, queried, heard,
                        procVars>>)]_vars

\* Cleanup() called twice on a started Executor nobody has waited for
C25_Witness ==
    /\ cleanupCalls = 2
    /\ isStarted
    /\ ~isFinished

\* C26: a signal the wrapper is sent while the Executor is started and not
\* finished is handed to the relay (or the same signal is waiting there
\* already), and the relay sends the child exactly the signal it took from
\* the channel when the Executor is started and not finished, and nothing
\* in any other state.
C26_RelayForwardsAll ==
    [][/\ (heard' # heard =>
            \/ sigBuf' = Append(sigBuf, heard'[Len(heard')])
            \/ heard'[Len(heard')] \in Range(sigBuf))
       /\ (sigBuf # <<>> /\ sigBuf' = Tail(sigBuf) =>
            IF isStarted /\ ~isFinished
            THEN delivered' = Append(delivered,
                                     [sig |-> Head(sigBuf), by |-> "relay"])
            ELSE delivered' = delivered)]_vars

\* C27: once the Executor is finished, and once Cleanup() has returned,
\* signalChan is unsubscribed and closed, so that the relay goroutine ends.
C27_NoRelayLeak ==
    (isFinished \/ cleanupCalls >= 1) =>
        /\ notified = "stopped"
        /\ signalChan = "closed"

\* C28: when run ends the wrapper after the child has ended, the exit
\* status is 128 + the number of the forwarded signal that ended the child,
\* and the child's own exit code when no signal ended it.
C28_ExitCodeMapping ==
    (~Alive /\ cmdWaitErr \in {"nil", "exit"}) =>
        IF procCode = KilledCode
        THEN \E i \in 1..Len(delivered) :
                 runExit = <<128 + SigNum(delivered[i].sig)>>
        ELSE runExit = <<procCode>>

\* C29: when the wrapper was sent a signal while its child ran, run
\* eventually ends the wrapper.
C29_SignalEndsRun == (heard # <<>>) ~> ~Alive

\* C30: when the child is finished (exec.Wait() has returned), run
\* eventually ends the wrapper.
C30_DrainBounded == isFinished ~> ~Alive

\* C31: when run ends the wrapper after a child that ended by itself, the
\* sink holds every line the child wrote to either stream, formatted and in
\* the order of its stream.
C31_NoLineLost ==
    (~Alive /\ cmdWaitErr \in {"nil", "exit"} /\ procCode # KilledCode) =>
        \A s \in Streams : SinkOf(s) = Formatted(s, Len(input[s]))

\* ------------------------------------------------ LoadConfig, checked
\* What a config file and a command line can hold for each setting.
FileValues(k) ==
    IF k \in {"utc", "colors"} THEN {<<>>, <<"true">>, <<"false">>}
    ELSE IF k = "template" THEN {<<>>, <<"file">>}
    ELSE {<<>>, <<"json">>}
FlagValues(k) ==
    IF k \in {"utc", "colors"} THEN {<<>>, <<"true">>, <<"false">>}
    ELSE IF k = "template" THEN {<<>>, <<"flag">>}
    ELSE {<<>>, <<"structured">>, <<"xml">>}

\* main reads a config file and a command line,
ReadInputs ==
    /\ loaded = <<>>
    /\ cfgFile = NoSettings
    /\ cliArgs = NoSettings
    /\ \E f \in [Setting -> UNION {FileValues(k) : k \in Setting}],
          a \in [Setting -> UNION {FlagValues(k) : k \in Setting}] :
          /\ \A k \in Setting : f[k] \in FileValues(k) /\ a[k] \in FlagValues(k)
          /\ f # NoSettings \/ a # NoSettings
          /\ cfgFile' = f
          /\ cliArgs' = a
    /\ UNCHANGED <<streamVars, ctxDone, taskVars, sinkVars, errors, wg,
                   psVars, stopVars, waitVars, getVars, execVars, runVars,
                   loaded, psCalls, fmtVars, cwPc,
                   notifyStops, chanCloses>>

\* and calls config.LoadConfig(configFile, args).
LoadConfig ==
    /\ loaded = <<>>
    /\ loaded' = << LoadConfigResult(cfgFile, cliArgs) >>
    /\ UNCHANGED <<streamVars, ctxDone, taskVars, sinkVars, errors, wg,
                   psVars, stopVars, waitVars, getVars, execVars, runVars,
                   cfgFile, cliArgs, psCalls, fmtVars, cwPc,
                   notifyStops, chanCloses>>

NextConf ==
    \/ ReadInputs
    \/ LoadConfig

SpecConf == InitExec /\ [][NextConf]_vars

\* C32: in the configuration LoadConfig returns, a setting the config file
\* gives and the command line does not has the value of the config file.
C32_FileKeptWithoutFlag ==
    \A k \in Setting :
        (/\ loaded # <<>>
         /\ cfgFile[k] # <<>>
         /\ cliArgs[k] = <<>>) =>
            (loaded[1].err = NoErr => loaded[1].config[k] = cfgFile[k][1])

\* C33: a reader at its check with the cancellation fired returns "context
\* cancelled" without handing the line it read to Write; with the
\* cancellation not fired it hands the line to Write.  A task that returned
\* "context cancelled" makes ProcessStreams return the aggregate failure.
C33_CheckBeforeEachLine ==
    [][/\ \A s \in Streams :
            (pc[s] = "check" /\ pc'[s] # "check") =>
                IF ctxDone
                THEN /\ pc'[s] = "exit"
                     /\ ret'[s] = ErrCancelled
                     /\ calls' = calls
                     /\ sink' = sink
                ELSE /\ pc'[s] = "inwrite"
                     /\ calls'[s] = Append(calls[s], Chunk(cur[s], s))
       /\ (psPc = "waiting" /\ psPc' = "returned"
            /\ \E s \in Streams : ret[s] = ErrCancelled) =>
                psResult'.err = ErrProcessingErrors]_vars

\* ProcessStreams failed because the stderr reader found the cancellation
\* at its first line, of which nothing was written
C33_Witness ==
    /\ psPc = "returned"
    /\ psResult.err = ErrProcessingErrors
    /\ ret[StreamStderr] = ErrCancelled
    /\ pos[StreamStderr] = 1
    /\ calls[StreamStderr] = <<>>
    /\ ret[StreamStdout] = NoErr

\* C34: a reader whose Scan ends on a handle that was closed under it
\* returns no error, as at end-of-file, and nothing is recorded for its
\* stream by that; a Scan that ends on any other read failure returns the
\* scanner error of its stream, which is recorded and fails ProcessStreams.
C34_ClosedIsNotAnError ==
    [][/\ \A s \in Streams :
            (pc[s] = "scan" /\ pc'[s] = "exit") =>
                ret'[s] = IF ended[s] \in {"eof", "closed"}
                          THEN NoErr ELSE ErrScanner
       /\ \A s \in Streams :
            (pc[s] = "exit" /\ pc'[s] = "done") =>
                errors' = IF ret[s] = NoErr THEN errors
                          ELSE Append(errors, [stream |-> s, cause |-> ret[s]])
       /\ (psPc = "waiting" /\ psPc' = "returned") =>
            (psResult'.err = NoErr <=> \A s \in Streams : ret[s] = NoErr)]_vars

\* ProcessStreams succeeded although the stdout handle was closed before
\* its reader had read all lines
C34_Witness ==
    /\ psPc = "returned"
    /\ psResult.err = NoErr
    /\ ended[StreamStdout] = "closed"
    /\ pos[StreamStdout] < Len(input[StreamStdout])
    /\ errors = <<>>

\* ------------------------------------------ ProcessStreams, called again
\* ProcessStreams is called on the same Processor with two new readers
\* after an earlier call has returned: wg.Add, two new goroutines; p.errors
\* is what the earlier calls left.
ProcessStreamsCallAgain ==
    /\ psPc = "returned"
    /\ psCalls < MaxAgain
    /\ psCalls' = psCalls + 1
    /\ psArgs' = [stdoutNil |-> FALSE, stderrNil |-> FALSE]
    /\ psPc' = "waiting"
    /\ wg' = wg + streamCount
    /\ input' = [s \in Streams |-> <<>>]
    /\ pos' = [s \in Streams |-> 0]
    /\ ended' = [s \in Streams |-> "open"]
    /\ pc' = [s \in Streams |-> "scan"]
    /\ cur' = [s \in Streams |-> ""]
    /\ ret' = [s \in Streams |-> NoErr]
    /\ calls' = [s \in Streams |-> <<>>]
    /\ UNCHANGED <<ctxDone, sinkVars, errors, psResult, stopVars, waitVars,
                   getVars, execVars, runVars, confVars, fmtVars, cwPc,
                   notifyStops, chanCloses>>

\* One more line arrives on stream s, up to MaxAgainLines for each call.
AgainProduce(s) ==
    /\ Len(input[StreamStdout]) + Len(input[StreamStderr]) < MaxAgainLines
    /\ Produce(s, "a")

\* A Processor whose ProcessStreams is called again after it returned; the
\* streams end at end-of-file or with a read failure, the sink never fails.
NextAgain ==
    \/ \E s \in Streams : AgainProduce(s)
    \/ \E s \in Streams, how \in {"eof", "ioerr"} : EndStream(s, how)
    \/ \E s \in Streams : TaskScan(s)
    \/ \E s \in Streams : TaskCheck(s)
    \/ \E s \in Streams : TaskWriteEnd(s)
    \/ \E s \in Streams : TaskExit(s)
    \/ ProcessStreamsCall(FALSE, FALSE)
    \/ ProcessStreamsReturn
    \/ ProcessStreamsCallAgain

SpecAgain == InitApi /\ [][NextAgain]_vars

\* C35: a ProcessStreams call after the first in which both reader tasks
\* returned no error returns success.
C35_ResultOfThisCall ==
    (psCalls >= 1 /\ psPc = "returned"
        /\ \A s \in Streams : ret[s] = NoErr) =>
            psResult.err = NoErr

\* --------------------------------------- FormatLine from both reader tasks
MaxFmtCalls == 3

\* The reader task of stream s calls FormatLine(line, s) with a non-empty
\* line; with detection enabled getLogLevel begins to read f.levelCache[line].
\* A map read while the other task writes the map is a data race the
\* runtime may stop the program for.
FormatLineCall(s, line) ==
    /\ fPc[s] = "idle"
    /\ ~mapFault
    /\ fmtCalls < MaxFmtCalls
    /\ fmtCalls' = fmtCalls + 1
    /\ fArg' = [fArg EXCEPT ![s] = line]
    /\ fPc' = [fPc EXCEPT ![s] = "lookup"]
    /\ \E fault \in (IF fPc[Other(s)] = "storing" THEN BOOLEAN ELSE {FALSE}) :
          mapFault' = fault
    /\ UNCHANGED <<levelCache, fOut, seen>>
    /\ UNCHANGED <<streamVars, ctxDone, taskVars, sinkVars, errors, wg,
                   psVars, stopVars, waitVars, getVars, execVars, runVars,
                   confVars, psCalls, cwPc, notifyStops, chanCloses>>

\* The read of f.levelCache[line] ends: a cached level is returned; without
\* one the keyword loop picks the level. A read that ran while the other
\* task was writing the map yields any value.
FormatLineLookup(s) ==
    /\ fPc[s] = "lookup"
    /\ ~mapFault
    /\ \E cached \in (IF fPc[Other(s)] = "storing"
                      THEN {<<>>} \cup {<<ToUpper(v)>> : v \in DOMAIN Keywords}
                      ELSE {levelCache[fArg[s]]}) :
          IF cached # <<>>
          THEN /\ seen' = seen \cup {<<fArg[s], s, cached[1]>>}
               /\ fPc' = [fPc EXCEPT ![s] = "idle"]
               /\ UNCHANGED fOut
          ELSE /\ \E level \in DetectLevels(fArg[s], s) :
                     fOut' = [fOut EXCEPT ![s] = level]
               /\ fPc' = [fPc EXCEPT ![s] = "computed"]
               /\ UNCHANGED seen
    /\ UNCHANGED <<levelCache, fArg, fmtCalls, mapFault>>
    /\ UNCHANGED <<streamVars, ctxDone, taskVars, sinkVars, errors, wg,
                   psVars, stopVars, waitVars, getVars, execVars, runVars,
                   confVars, psCalls, cwPc, notifyStops, chanCloses>>

\* getLogLevel begins the write f.levelCache[line] = level.
FormatLineStore(s) ==
    /\ fPc[s] = "computed"
    /\ ~mapFault
    /\ fPc' = [fPc EXCEPT ![s] = "storing"]
    /\ \E fault \in (IF fPc[Other(s)] \in {"lookup", "storing"}
                     THEN BOOLEAN ELSE {FALSE}) :
          mapFault' = fault
    /\ UNCHANGED <<levelCache, fArg, fOut, fmtCalls, seen>>
    /\ UNCHANGED <<streamVars, ctxDone, taskVars, sinkVars, errors, wg,
                   psVars, stopVars, waitVars, getVars, execVars, runVars,
                   confVars, psCalls, cwPc, notifyStops, chanCloses>>

\* The write ends and getLogLevel returns the level it stored. A write that
\* ran while the other task was writing the map leaves any entry.
FormatLineReturn(s) ==
    /\ fPc[s] = "storing"
    /\ ~mapFault
    /\ \E entry \in (IF fPc[Other(s)] = "storing"
                     THEN {<<>>} \cup {<<ToUpper(v)>> : v \in DOMAIN Keywords}
                     ELSE {<<fOut[s]>>}) :
          levelCache' = [levelCache EXCEPT ![fArg[s]] = entry]
    /\ seen' = seen \cup {<<fArg[s], s, fOut[s]>>}
    /\ fPc' = [fPc EXCEPT ![s] = "idle"]
    /\ UNCHANGED <<fArg, fOut, fmtCalls, mapFault>>
    /\ UNCHANGED <<streamVars, ctxDone, taskVars, sinkVars, errors, wg,
                   psVars, stopVars, waitVars, getVars, execVars, runVars,
                   confVars, psCalls, cwPc, notifyStops, chanCloses>>

\* The two reader tasks format the lines they read with one formatter.
NextFmt ==
    \/ \E s \in Streams, line \in DetectLines : FormatLineCall(s, line)
    \/ \E s \in Streams : FormatLineLookup(s)
    \/ \E s \in Streams : FormatLineStore(s)
    \/ \E s \in Streams : FormatLineReturn(s)

SpecFmt == InitExec /\ [][NextFmt]_vars

\* C36: no FormatLine call writes the level cache while the call of the
\* other reader task reads or writes it.
C36_NoSharedWrite ==
    \A s \in Streams :
        fPc[s] = "storing" => fPc[Other(s)] \notin {"lookup", "storing"}

\* getLogLevel without the cache: FormatLine(line, s) returns a level of
\* the keyword loop in one step.
FormatLineDetect(s, line) ==
    /\ fmtCalls < MaxFmtCalls
    /\ fmtCalls' = fmtCalls + 1
    /\ \E level \in DetectLevels(line, s) :
          seen' = seen \cup {<<line, s, level>>}
    /\ UNCHANGED <<levelCache, fPc, fArg, fOut, mapFault>>
    /\ UNCHANGED <<streamVars, ctxDone, taskVars, sinkVars, errors, wg,
                   psVars, stopVars, waitVars, getVars, execVars, runVars,
                   confVars, psCalls, cwPc, notifyStops, chanCloses>>

NextDetect == \E s \in Streams, line \in DetectLines : FormatLineDetect(s, line)

SpecDetect == InitExec /\ [][NextDetect]_vars

\* C37: two FormatLine calls with the same line and the same stream kind
\* return the same level.
C37_LevelIsAFunction ==
    \A x \in seen, y \in seen :
        (x[1] = y[1] /\ x[2] = y[2]) => x[3] = y[3]

\* C38: once e.cmd.Wait() has failed and Wait() has returned that failure,
\* no Wait() call on the handle returns success.
C38_WaitErrorNotMasked ==
    cmdWaitErr = "oserr" => execWaitResult # NoErr

\* ------------------------------------------------ Wait() from two tasks
\* Task c calls Wait() on the started handle: it reads isStarted and
\* isFinished without a lock, returns nil when isFinished is set and
\* otherwise enters e.cmd.Wait().
ConcWaitCall(c) ==
    /\ newResult = "ok"
    /\ isStarted
    /\ \A d \in WaitCallers : cwPc[d] # "panicked"
    /\ cwPc[c] = "idle"
    /\ IF isFinished
       THEN /\ cwPc' = [cwPc EXCEPT ![c] = "returned"]
            /\ UNCHANGED osWaits
       ELSE /\ cwPc' = [cwPc EXCEPT ![c] = "oswait"]
            /\ osWaits' = osWaits + 1
    /\ UNCHANGED <<handleVars, relayVars, flagVars, childVars, cmdWaitErr,
                   startCalls, startResult, ewPc, execWaitCalls,
                   execWaitResult, execStops, execStopResult, lifeVars>>
    /\ UNCHANGED <<streamVars, ctxDone, taskVars, sinkVars, errors, wg,
                   psVars, stopVars, waitVars, getVars, runVars, confVars,
                   psCalls, fmtVars, notifyStops, chanCloses>>

\* e.cmd.Wait() returns to task c, when the child has ended or with a
\* failure of the wait; then isFinished = true, signal.Stop(e.signalChan)
\* and close(e.signalChan), which panics on a channel closed already; then
\* the exit code is taken from an *exec.ExitError.
ConcWaitReturn(c, fail) ==
    /\ cwPc[c] = "oswait"
    /\ \A d \in WaitCallers : cwPc[d] # "panicked"
    /\ fail \/ proc \in {"exited", "reaped"}
    /\ isFinished' = TRUE
    /\ notified' = "stopped"
    /\ notifyStops' = notifyStops + 1
    /\ signalChan' = "closed"
    /\ chanCloses' = chanCloses + 1
    /\ CmdClosesPipes
    /\ proc' = IF fail THEN proc ELSE "reaped"
    /\ IF chanCloses >= 1
       THEN /\ cwPc' = [cwPc EXCEPT ![c] = "panicked"]
            /\ UNCHANGED <<cmdWaitErr, exitCode>>
       ELSE /\ cwPc' = [cwPc EXCEPT ![c] = "returned"]
            /\ cmdWaitErr' = IF fail THEN "oserr"
                             ELSE IF procCode = 0 THEN "nil" ELSE "exit"
            /\ exitCode' = IF fail \/ procCode = 0 THEN exitCode ELSE procCode
    /\ UNCHANGED <<command, newResult, cancel, sigBuf, relayPc, osSignals,
                   isStarted, procCode, delivered, spawned, osWaits,
                   startCalls, startResult, ewPc, execWaitCalls,
                   execWaitResult, execStops, execStopResult, ctxKilled,
                   cleanupCalls, queried, heard>>
    /\ UNCHANGED <<streamVars, ctxDone, taskVars, sinkVars, errors, wg,
                   psVars, stopVars, waitVars, getVars, runVars, confVars,
                   psCalls, fmtVars>>

\* One started Executor whose Wait() is called by two tasks, with signals
\* sent to the wrapper from outside and the relay goroutine running.
NextConc ==
    \/ \E pipeFail \in PipeFailures : ExecutorNew(<< <<"sh">> >>, pipeFail)
    \/ \E ok \in BOOLEAN : ExecutorStart(ok)
    \/ \E code \in ExitCodes \cup {KilledCode} : ChildExit(code)
    \/ \E c \in WaitCallers : ConcWaitCall(c)
    \/ \E c \in WaitCallers, fail \in BOOLEAN : ConcWaitReturn(c, fail)
    \/ \E sig \in RelayedSignals : OsSignal(sig)
    \/ RelayForward
    \/ RelayExit

SpecConc == InitExec /\ [][NextConc]_vars

\* C39: with two tasks calling Wait() on one started handle, e.cmd.Wait()
\* is entered at most once and the signal channel is unsubscribed and
\* closed at most once.
C39_WaitRunsOnce ==
    /\ osWaits <= 1
    /\ notifyStops <= 1
    /\ chanCloses <= 1

\* C40: New does not return ErrCommandPathTraversal for a non-empty command
\* whose cleaned command[0] has no ".." segment.
C40_DotsInNameAccepted ==
    (/\ newResult # "none"
     /\ command # <<>>
     /\ \A i \in 1..Len(CleanPath(command[1])) :
           CleanPath(command[1])[i] # "..") =>
        newResult # ErrCommandPathTraversal

====
